---- MODULE Spec2Model ----
(***************************************************************************)
(* Stake lifecycle and settlement pipeline of the AI-Interview platform.   *)
(*                                                                         *)
(*   - InterviewStake / InterviewToken (Solidity): the escrow ledger.      *)
(*   - SettlementAgent (settlement-agent.ts): reward / slash submission.   *)
(*   - EvaluationAgent.makeDecision (evaluation-agent.ts): the verdict.    *)
(*   - createFeedback / rewardUser (general.action): server reward logic.  *)
(*   - Agent end-of-call effect (Agent.tsx): the caller of all of these.   *)
(*   - PaymentAgent.lockTokensInEscrow (payment-agent.ts): the lock flow.  *)
(*   - PaymentAgent.handlePaymentFlow and retryWithBackoff: the flow       *)
(*     around the lock and the retry helper of its reads.                  *)
(*   - settleWithRetry (PROJECT_ANALYSIS.md): the documented retry loop.   *)
(*                                                                         *)
(* Token amounts are counted in units of 0.1 ether (10^17 wei), so that    *)
(* STAKE_AMOUNT = 0.5 ether is 5.  uint256 overflow is out of reach: the   *)
(* whole supply is 10^6 ether.                                             *)
(***************************************************************************)
EXTENDS Integers, Sequences, FiniteSets, TLC

VARIABLES
    userStakes,   \* InterviewStake.userStakes : address -> uint256
    balances,     \* InterviewToken balances (ERC20 _balances), escrow included
    allowance,    \* InterviewToken allowance of each account to the escrow
    events,       \* event log of InterviewStake (Staked / Rewarded / Slashed)
    lastCall,     \* the most recent call of stake / reward / slash and its outcome
    txs,          \* transactions sent by the agents: pending or mined, with receipt
    callStatus,   \* Agent.tsx: callStatus of each mounted Agent component
    userWallet,   \* Agent.tsx: userWallet of each component (also users/{id}.wallet)
    processingFeedback,  \* Agent.tsx: the processingFeedback ref of each component
    effectPc,     \* position of the end-of-call effect's timeout callback
    evaluationResult,    \* Agent.tsx: the DecisionResult kept by each component
    attempt,      \* the SettlementAgent.settle call started by each component
    lock,         \* the PaymentAgent.lockTokensInEscrow call of each component
    backoff       \* the PaymentAgent.retryWithBackoff call in progress

ledgerVars == <<userStakes, balances, allowance, events, lastCall>>

agentVars == <<callStatus, userWallet, processingFeedback, effectPc, evaluationResult>>

pipelineVars == <<txs, callStatus, userWallet, processingFeedback, effectPc,
                  evaluationResult, attempt, lock, backoff>>

vars == <<userStakes, balances, allowance, events, lastCall, txs, callStatus,
          userWallet, processingFeedback, effectPc, evaluationResult, attempt, lock,
          backoff>>

----------------------------------------------------------------------------
(* Bounds *)

\* tokens every account holds at the start, in units of 0.1 ether
InitTokens == 10

\* cap on the length of the event log
MaxEvents == 3

----------------------------------------------------------------------------
(* Accounts *)

Admin == "admin"

Candidates == {"c1", "c2"}

Accounts == {Admin} \cup Candidates

\* address(this) of InterviewStake
Escrow == "escrow"

Holders == Accounts \cup {Escrow}

\* uint256 public constant STAKE_AMOUNT = 0.5 ether
STAKE_AMOUNT == 5

----------------------------------------------------------------------------
(* The ledger: InterviewToken (ERC20) and InterviewStake *)

Ledger == [userStakes |-> userStakes, balances |-> balances,
           allowance |-> allowance, events |-> events]

Reverted(L, why) == [ok |-> FALSE, reason |-> why, amount |-> 0, ledger |-> L]

\* ERC20.transfer(to, amount) called by the escrow: reverts on insufficient balance
transfer(bal, to, amount) ==
    IF bal[Escrow] < amount
    THEN [ok |-> FALSE, balances |-> bal]
    ELSE [ok |-> TRUE,
          balances |-> [h \in Holders |->
                           IF h = Escrow /\ h = to THEN bal[h]
                           ELSE IF h = Escrow THEN bal[h] - amount
                           ELSE IF h = to THEN bal[h] + amount
                           ELSE bal[h]]]

\* ERC20.transfer(to, amount) called by any holder of the token
erc20Transfer(bal, from, to, amount) ==
    IF bal[from] < amount \/ from = to THEN bal
    ELSE [h \in Holders |->
             IF h = from THEN bal[h] - amount
             ELSE IF h = to THEN bal[h] + amount
             ELSE bal[h]]

\* a token whose transferFrom forgets the allowance
transferFrom_noAllowance(bal, allow, from, amount) ==
    IF bal[from] < amount
    THEN [ok |-> FALSE, balances |-> bal, allowance |-> allow]
    ELSE [ok |-> TRUE,
          balances |-> [h \in Holders |->
                           IF h = from THEN bal[h] - amount
                           ELSE IF h = Escrow THEN bal[h] + amount
                           ELSE bal[h]],
          allowance |-> allow]

\* ERC20.transferFrom(from, escrow, amount) called by the escrow:
\* reverts on insufficient allowance or balance, spends the allowance
transferFrom(bal, allow, from, amount) ==
    IF allow[from] < amount \/ bal[from] < amount
    THEN [ok |-> FALSE, balances |-> bal, allowance |-> allow]
    ELSE [ok |-> TRUE,
          balances |-> [h \in Holders |->
                           IF h = from THEN bal[h] - amount
                           ELSE IF h = Escrow THEN bal[h] + amount
                           ELSE bal[h]],
          allowance |-> [allow EXCEPT ![from] = @ - amount]]

\* the modifier left off: any caller passes
onlyAdmin_anyone(sender) == TRUE

\* modifier onlyAdmin
onlyAdmin(sender) == sender = Admin

\* a plausible slip in stake(): the record is assigned instead of incremented
stake_assign(L, sender) ==
    LET t == transferFrom(L.balances, L.allowance, sender, STAKE_AMOUNT)
    IN  IF ~t.ok THEN Reverted(L, "Token transfer failed")
        ELSE [ok |-> TRUE, reason |-> "", amount |-> STAKE_AMOUNT,
              ledger |-> [userStakes |-> [L.userStakes EXCEPT ![sender] = STAKE_AMOUNT],
                          balances |-> t.balances,
                          allowance |-> t.allowance,
                          events |-> Append(L.events,
                                       [name |-> "Staked", user |-> sender,
                                        amount |-> STAKE_AMOUNT])]]

\* stake() of the earlier contract version, which ignored transferFrom's return
\* value, over a token that returns false instead of reverting: the record is
\* raised though no token moved
stake_unchecked(L, sender) ==
    LET t == transferFrom(L.balances, L.allowance, sender, STAKE_AMOUNT)
    IN  [ok |-> TRUE, reason |-> "", amount |-> STAKE_AMOUNT,
         ledger |-> [userStakes |-> [L.userStakes EXCEPT ![sender] = @ + STAKE_AMOUNT],
                     balances |-> t.balances,
                     allowance |-> t.allowance,
                     events |-> Append(L.events,
                                  [name |-> "Staked", user |-> sender,
                                   amount |-> STAKE_AMOUNT])]]

\* function stake() external
stake(L, sender) ==
    LET t == transferFrom(L.balances, L.allowance, sender, STAKE_AMOUNT)
    IN  IF ~t.ok THEN Reverted(L, "Token transfer failed")
        ELSE [ok |-> TRUE, reason |-> "", amount |-> STAKE_AMOUNT,
              ledger |-> [userStakes |-> [L.userStakes EXCEPT ![sender] = @ + STAKE_AMOUNT],
                          balances |-> t.balances,
                          allowance |-> t.allowance,
                          events |-> Append(L.events,
                                       [name |-> "Staked", user |-> sender,
                                        amount |-> STAKE_AMOUNT])]]

\* reward / slash that pay out without zeroing the record (as the first version
\* of the contract, which kept no record, did)
settleStake_keepRecord(L, sender, user, recipient, eventName) ==
    LET amount == L.userStakes[user]
        t == transfer(L.balances, recipient, amount)
    IN  IF ~onlyAdmin(sender) THEN Reverted(L, "Only admin allowed")
        ELSE IF ~(amount > 0) THEN Reverted(L, "No stake found")
        ELSE IF ~t.ok THEN Reverted(L, "Transfer failed")
        ELSE [ok |-> TRUE, reason |-> "", amount |-> amount,
              ledger |-> [userStakes |-> L.userStakes,
                          balances |-> t.balances,
                          allowance |-> L.allowance,
                          events |-> Append(L.events,
                                       [name |-> eventName, user |-> user,
                                        amount |-> amount])]]

\* reward / slash as in the earlier contract version, which declared no events
settleStake_noEvent(L, sender, user, recipient, eventName) ==
    LET amount == L.userStakes[user]
        t == transfer(L.balances, recipient, amount)
    IN  IF ~onlyAdmin(sender) THEN Reverted(L, "Only admin allowed")
        ELSE IF ~(amount > 0) THEN Reverted(L, "No stake found")
        ELSE IF ~t.ok THEN Reverted(L, "Transfer failed")
        ELSE [ok |-> TRUE, reason |-> "", amount |-> amount,
              ledger |-> [userStakes |-> [L.userStakes EXCEPT ![user] = 0],
                          balances |-> t.balances,
                          allowance |-> L.allowance,
                          events |-> L.events]]

\* reward / slash that pay out one stake amount whatever the record holds
settleStake_payOne(L, sender, user, recipient, eventName) ==
    LET amount == L.userStakes[user]
        t == transfer(L.balances, recipient, STAKE_AMOUNT)
    IN  IF ~onlyAdmin(sender) THEN Reverted(L, "Only admin allowed")
        ELSE IF ~(amount > 0) THEN Reverted(L, "No stake found")
        ELSE IF ~t.ok THEN Reverted(L, "Transfer failed")
        ELSE [ok |-> TRUE, reason |-> "", amount |-> STAKE_AMOUNT,
              ledger |-> [userStakes |-> [L.userStakes EXCEPT ![user] = 0],
                          balances |-> t.balances,
                          allowance |-> L.allowance,
                          events |-> Append(L.events,
                                       [name |-> eventName, user |-> user,
                                        amount |-> STAKE_AMOUNT])]]

\* the common body of reward(user) and slash(user): the stake record is zeroed,
\* the whole recorded amount goes to the recipient, one event is emitted
settleStake(L, sender, user, recipient, eventName) ==
    LET amount == L.userStakes[user]
        t == transfer(L.balances, recipient, amount)
    IN  IF ~onlyAdmin(sender) THEN Reverted(L, "Only admin allowed")
        ELSE IF ~(amount > 0) THEN Reverted(L, "No stake found")
        ELSE IF ~t.ok THEN Reverted(L, "Transfer failed")
        ELSE [ok |-> TRUE, reason |-> "", amount |-> amount,
              ledger |-> [userStakes |-> [L.userStakes EXCEPT ![user] = 0],
                          balances |-> t.balances,
                          allowance |-> L.allowance,
                          events |-> Append(L.events,
                                       [name |-> eventName, user |-> user,
                                        amount |-> amount])]]

\* reward that pays the admin, as slash does
reward_toAdmin(L, sender, user) == settleStake(L, sender, user, Admin, "Rewarded")

\* function reward(address user) external onlyAdmin
reward(L, sender, user) == settleStake(L, sender, user, user, "Rewarded")

\* slash that pays the candidate, as reward does
slash_toUser(L, sender, user) == settleStake(L, sender, user, user, "Slashed")

\* function slash(address user) external onlyAdmin
slash(L, sender, user) == settleStake(L, sender, user, Admin, "Slashed")

\* ERC20.approve(spender, STAKE_AMOUNT) by owner: the allowance is set, not
\* added to; only the allowance to the escrow is part of the ledger state
approve(L, owner, spender) ==
    [ok |-> TRUE, reason |-> "", amount |-> STAKE_AMOUNT,
     ledger |-> IF spender = Escrow
                THEN [L EXCEPT !.allowance = [@ EXCEPT ![owner] = STAKE_AMOUNT]]
                ELSE L]

\* the ledger operation named op, called by sender for user (for approve, user
\* is the spender)
call(L, op, sender, user) ==
    CASE op = "stake" -> stake(L, sender)
      [] op = "reward" -> reward(L, sender, user)
      [] op = "slash" -> slash(L, sender, user)
      [] op = "approve" -> approve(L, sender, user)

\* a call that re-entered the ledger from the token transfer of reward / slash:
\* stakeSeen is userStakes[user] as that call read it
NoInner == [op |-> "none", sender |-> Admin, stakeSeen |-> 0, ok |-> FALSE,
            reason |-> ""]

CallRecord(op, sender, user, r) ==
    [op |-> op, sender |-> sender, user |-> user,
     ok |-> r.ok, reason |-> r.reason, amount |-> r.amount, inner |-> NoInner]

NoCall == [op |-> "none", sender |-> Admin, user |-> Admin,
           ok |-> FALSE, reason |-> "", amount |-> 0, inner |-> NoInner]

\* the ledger after the call, and the record of the call
Apply(op, sender, user) ==
    LET r == call(Ledger, op, sender, user)
    IN  /\ userStakes' = r.ledger.userStakes
        /\ balances' = r.ledger.balances
        /\ allowance' = r.ledger.allowance
        /\ events' = r.ledger.events
        /\ lastCall' = CallRecord(op, sender, user, r)

\* reward / slash that transfer before they zero the record
atTransfer_late(L, user) == L

\* the ledger at the moment reward / slash call token.transfer: the record of
\* user has been zeroed, no token has moved yet
atTransfer(L, user) == [L EXCEPT !.userStakes = [@ EXCEPT ![user] = 0]]

\* reward / slash over a token whose transfer calls out before it moves the
\* tokens, with the callee calling reward or slash (innerOp) for the same user as
\* innerSender.  The deployed InterviewToken makes no such call.  caught says
\* whether the callee catches a revert of its call; if not, the revert
\* bubbles up.  rec is the record of the inner call.
settleStakeReentered(L, sender, user, recipient, eventName, innerOp, innerSender, caught) ==
    LET amount == L.userStakes[user]
        M == atTransfer(L, user)
        in == call(M, innerOp, innerSender, user)
        rec == [op |-> innerOp, sender |-> innerSender,
                stakeSeen |-> M.userStakes[user], ok |-> in.ok, reason |-> in.reason]
        M2 == in.ledger
        t == transfer(M2.balances, recipient, amount)
    IN  IF ~onlyAdmin(sender) THEN [r |-> Reverted(L, "Only admin allowed"), rec |-> NoInner]
        ELSE IF ~(amount > 0) THEN [r |-> Reverted(L, "No stake found"), rec |-> NoInner]
        ELSE IF ~in.ok /\ ~caught THEN [r |-> Reverted(L, in.reason), rec |-> rec]
        ELSE IF ~t.ok THEN [r |-> Reverted(L, "Transfer failed"), rec |-> rec]
        ELSE [r |-> [ok |-> TRUE, reason |-> "", amount |-> amount,
                     ledger |-> [userStakes |-> M2.userStakes,
                                 balances |-> t.balances,
                                 allowance |-> M2.allowance,
                                 events |-> Append(M2.events,
                                              [name |-> eventName, user |-> user,
                                               amount |-> amount])]],
              rec |-> rec]

----------------------------------------------------------------------------
(* Ledger transactions sent directly by accounts *)

\* token.approve(escrow, stakeAmount) by a candidate's wallet
Approve(u) ==
    /\ allowance[u] < STAKE_AMOUNT
    /\ allowance' = [allowance EXCEPT ![u] = STAKE_AMOUNT]
    /\ UNCHANGED <<userStakes, balances, events, lastCall>>
    /\ UNCHANGED pipelineVars

CallStake(u) ==
    /\ Len(events) < MaxEvents
    /\ Apply("stake", u, u)
    /\ UNCHANGED pipelineVars

CallReward(sender, user) ==
    /\ Len(events) < MaxEvents
    /\ Apply("reward", sender, user)
    /\ UNCHANGED pipelineVars

CallSlash(sender, user) ==
    /\ Len(events) < MaxEvents
    /\ Apply("slash", sender, user)
    /\ UNCHANGED pipelineVars

----------------------------------------------------------------------------
(* The chain as the agents see it: submitted transactions and their receipts *)

\* mounted Agent components (one interview session each)
Sessions == {"s1", "s2"}

\* a transaction is named by who sent it: the SettlementAgent call of a session,
\* createFeedback's rewardUser of a session, or the approval and the stake of the
\* PaymentAgent call of a session
TxIds == {"settle", "feedback", "approve", "lock"} \X Sessions

NoTx == <<"none", "none">>

NoWallet == "none"

NoTxRec == [state |-> "none", from |-> NoWallet, op |-> "none", user |-> NoWallet,
            nonce |-> 0, status |-> 0, reason |-> ""]

\* the account nonce: transactions of one account are mined in the order sent
NonceOf(a) ==
    LET used == {txs[id].nonce : id \in {i \in TxIds : txs[i].state # "none" /\ txs[i].from = a}}
    IN  IF used = {} THEN 0 ELSE 1 + CHOOSE n \in used : \A m \in used : m <= n

Pending(op, from, user) ==
    [state |-> "pending", from |-> from, op |-> op, user |-> user,
     nonce |-> NonceOf(from), status |-> 0, reason |-> ""]

\* values NEXT_PUBLIC_STAKE_ADDRESS can have besides the address of the
\* deployed InterviewStake: a well-formed address with no code, and a value
\* that is unset or no address, which ethers refuses when it is used
NoCodeAddress == "noCode"

BadAddress == "bad"

\* the address a transaction is sent to: a settlement goes to the address
\* getContract() built its contract with
TargetOf(id) == IF id[1] = "settle" THEN attempt[id[2]].escrowAddress ELSE Escrow

\* a pending transaction is executed by the ledger; its receipt has status 1 on
\* success and 0 on revert
Mine(id) ==
    /\ txs[id].state = "pending"
    /\ TargetOf(id) = Escrow
    /\ \A other \in TxIds :
          (txs[other].state = "pending" /\ txs[other].from = txs[id].from)
             => txs[other].nonce >= txs[id].nonce
    /\ LET r == call(Ledger, txs[id].op, txs[id].from, txs[id].user)
       IN  /\ Apply(txs[id].op, txs[id].from, txs[id].user)
           /\ txs' = [txs EXCEPT ![id] = [@ EXCEPT !.state = "mined",
                                                   !.status = IF r.ok THEN 1 ELSE 0,
                                                   !.reason = r.reason]]
    /\ UNCHANGED <<callStatus, userWallet, processingFeedback, effectPc,
                   evaluationResult, attempt, lock, backoff>>

----------------------------------------------------------------------------
(* EvaluationAgent *)

\* private readonly PASS_THRESHOLD = 65
PASS_THRESHOLD == 65

\* finalScore: number; // 0-100
MaxScore == 100

AllScores == 0..MaxScore

\* the scores the pipeline is explored with: both sides of the threshold
ScoreSamples == {PASS_THRESHOLD - 1, PASS_THRESHOLD}

NoDecision == [status |-> "none", finalScore |-> 0]

\* a wrong comparison in makeDecision: the threshold itself fails
makeDecision_strict(totalScore) ==
    [status |-> IF totalScore > PASS_THRESHOLD THEN "pass" ELSE "fail",
     finalScore |-> totalScore]

\* EvaluationAgent.makeDecision
makeDecision(totalScore) ==
    [status |-> IF totalScore >= PASS_THRESHOLD THEN "pass" ELSE "fail",
     finalScore |-> totalScore]

----------------------------------------------------------------------------
(* SettlementAgent *)

NoInput == [walletAddress |-> NoWallet, finalScore |-> 0, status |-> "none"]

NoResult == [returned |-> FALSE, success |-> FALSE, transactionHash |-> NoTx,
             tokensStatus |-> "none", interviewStatus |-> "none", error |-> ""]

\* submitted lists the ledger operations the call has sent, in order; checks
\* lists what verifySettlement read from the chain; notified counts the calls of
\* notifyBackend; tries is the loop counter of settleWithRetry
IdleAttempt == [state |-> "IDLE", branch |-> "none", input |-> NoInput,
                signer |-> NoWallet, transactionHash |-> NoTx, submitted |-> <<>>,
                progress |-> <<>>, result |-> NoResult,
                checks |-> <<>>, notified |-> 0, tries |-> 0,
                escrowAddress |-> Escrow]

\* a routing without its final else: whatever is not pass is settled as fail
settleBranch_default(status) ==
    IF status = "pass" THEN "settlePass" ELSE "settleFail"

\* SettlementAgent.settle: the routing on input.status
settleBranch(status) ==
    IF status = "pass" THEN "settlePass"
    ELSE IF status = "fail" THEN "settleFail"
    ELSE "throw"

\* the ledger operation settlePass / settleFail submits
branchOp(branch) == IF branch = "settlePass" THEN "reward" ELSE "slash"

\* a tokensStatus that follows the outcome: nothing is claimed on failure
branchTokens_honest(branch) == "none"

\* tokensStatus of the results of settlePass / settleFail
branchTokens(branch) == IF branch = "settlePass" THEN "refunded" ELSE "penalized"

branchStatus(branch) == IF branch = "settlePass" THEN "pass" ELSE "fail"

\* updateProgress(state, message, transactionHash)
updateProgress(a, state) ==
    [a EXCEPT !.state = state, !.progress = Append(@, state)]

\* the catch block of settlePass / settleFail
catchFailure(a, message) ==
    [updateProgress(a, "FAILED") EXCEPT
        !.result = [returned |-> TRUE, success |-> FALSE, transactionHash |-> NoTx,
                    tokensStatus |-> branchTokens(a.branch),
                    interviewStatus |-> branchStatus(a.branch),
                    error |-> message]]

\* a success path that leaves out the call of notifyBackend
complete_silent(a) ==
    [updateProgress(a, "COMPLETE") EXCEPT
        !.result = [returned |-> TRUE, success |-> TRUE,
                    transactionHash |-> a.transactionHash,
                    tokensStatus |-> branchTokens(a.branch),
                    interviewStatus |-> branchStatus(a.branch),
                    error |-> ""]]

\* the success path of settlePass / settleFail after verification: COMPLETE is
\* published, the result is built, notifyBackend is awaited (it swallows its own
\* errors), the result is returned
complete(a) ==
    [updateProgress(a, "COMPLETE") EXCEPT
        !.result = [returned |-> TRUE, success |-> TRUE,
                    transactionHash |-> a.transactionHash,
                    tokensStatus |-> branchTokens(a.branch),
                    interviewStatus |-> branchStatus(a.branch),
                    error |-> ""],
        !.notified = @ + 1]

\* a verification that trusts the result of wait() and reads nothing
verifySettlement_trusting(rpc, receiptStatus) == TRUE

\* SettlementAgent.verifySettlement: rpc is what getTransactionReceipt does
\* ("ok": the receipt, "null": no receipt, "error": it throws)
verifySettlement(rpc, receiptStatus) ==
    IF rpc = "ok" THEN receiptStatus = 1 ELSE FALSE

\* what verifySettlement has read from the chain when it returns: the status of
\* the receipt when getTransactionReceipt returned one, nothing else (the
\* recipient and the type are only logged; the event log is not queried)
verificationReads(rpc) ==
    IF rpc = "ok" THEN <<"receipt.status">> ELSE <<>>

\* settle(input) up to the point where the transaction is about to be sent:
\* routing, PREPARING, the status check and getContract()
settleStart(input, signer, connected) ==
    LET branch == settleBranch(input.status)
        a0 == [IdleAttempt EXCEPT !.input = input, !.branch = branch]
        a1 == updateProgress(a0, "PREPARING")
    IN  IF branch = "throw" THEN [a0 EXCEPT !.state = "THROWN"]
        ELSE IF input.status # branchStatus(branch)
             THEN catchFailure(a1, "Invalid settlement")
        ELSE IF ~connected
             THEN catchFailure(a1, "Failed to connect to escrow contract")
        ELSE [updateProgress(a1, "EXECUTING") EXCEPT !.signer = signer]

----------------------------------------------------------------------------
(* Agent.tsx: one interview session *)

\* const PASS_SCORE = 65 in createFeedback
PASS_SCORE == 65

\* handleCall: the wallet selected in the browser is read and kept; the payment
\* step is bypassed; the call starts
HandleCall(s, wallet) ==
    /\ callStatus[s] = "INACTIVE"
    /\ callStatus' = [callStatus EXCEPT ![s] = "ACTIVE"]
    /\ userWallet' = [userWallet EXCEPT ![s] = wallet]
    /\ UNCHANGED ledgerVars
    /\ UNCHANGED <<txs, processingFeedback, effectPc, evaluationResult, attempt, lock, backoff>>

\* onCallEnd
CallEnd(s) ==
    /\ callStatus[s] = "ACTIVE"
    /\ callStatus' = [callStatus EXCEPT ![s] = "FINISHED"]
    /\ UNCHANGED ledgerVars
    /\ UNCHANGED <<txs, userWallet, processingFeedback, effectPc, evaluationResult,
                   attempt, lock, backoff>>

\* the timeout callback of the end-of-call effect, up to evaluateAndDecide:
\* with a short transcript the guard is released again and nothing happens
EvaluateAndDecide(s, enough, evalOk, score) ==
    /\ callStatus[s] = "FINISHED"
    /\ ~processingFeedback[s]
    /\ effectPc[s] = "idle"
    /\ IF ~enough
       THEN UNCHANGED <<processingFeedback, effectPc, evaluationResult>>
       ELSE /\ processingFeedback' = [processingFeedback EXCEPT ![s] = TRUE]
            /\ IF evalOk
               THEN /\ evaluationResult' = [evaluationResult EXCEPT ![s] = makeDecision(score)]
                    /\ effectPc' = [effectPc EXCEPT ![s] = "evaluated"]
               ELSE /\ effectPc' = [effectPc EXCEPT ![s] = "done"]
                    /\ UNCHANGED evaluationResult
    /\ UNCHANGED ledgerVars
    /\ UNCHANGED <<txs, callStatus, userWallet, attempt, lock, backoff>>

\* createFeedback: generateObject scores the transcript again (fbScore); the
\* reward logic sends reward(wallet) with the admin key when fbScore >= PASS_SCORE.
\* The admin wallet estimates gas first, so a reward that would revert throws
\* and createFeedback returns success false.
CreateFeedback(s, genOk, fbScore) ==
    /\ effectPc[s] = "evaluated"
    /\ LET wallet == userWallet[s]
           id == <<"feedback", s>>
       IN  IF ~genOk
           THEN /\ effectPc' = [effectPc EXCEPT ![s] = "done"]
                /\ UNCHANGED txs
           ELSE IF wallet # NoWallet /\ fbScore >= PASS_SCORE
           THEN IF call(Ledger, "reward", Admin, wallet).ok
                THEN /\ txs' = [txs EXCEPT ![id] = Pending("reward", Admin, wallet)]
                     /\ effectPc' = [effectPc EXCEPT ![s] = "feedbackDone"]
                ELSE /\ effectPc' = [effectPc EXCEPT ![s] = "done"]
                     /\ UNCHANGED txs
           ELSE /\ effectPc' = [effectPc EXCEPT ![s] = "feedbackDone"]
                /\ UNCHANGED txs
    /\ UNCHANGED ledgerVars
    /\ UNCHANGED <<callStatus, userWallet, processingFeedback, evaluationResult,
                   attempt, lock, backoff>>

\* settle without its else: after the reward is sent the slash is sent too
execute_both(a, id, sent) ==
    IF a.state # "EXECUTING" THEN a
    ELSE IF sent
    THEN updateProgress([a EXCEPT !.transactionHash = id,
                                  !.submitted = <<"reward", "slash">>],
                        "VERIFYING")
    ELSE catchFailure(a, "send failed")

\* a send that publishes no VERIFYING update
execute_skipVerifying(a, id, sent) ==
    IF a.state # "EXECUTING" THEN a
    ELSE IF sent
    THEN [a EXCEPT !.transactionHash = id,
                   !.submitted = Append(@, branchOp(a.branch)),
                   !.state = "VERIFYING"]
    ELSE catchFailure(a, "send failed")

\* escrowContract.reward / slash (input.walletAddress, {gasLimit}) of an attempt
\* that reached EXECUTING: the transaction is sent under the name id, or sending
\* throws (the wallet declines to sign, RPC error)
execute(a, id, sent) ==
    IF a.state # "EXECUTING" THEN a
    ELSE IF sent
    THEN updateProgress([a EXCEPT !.transactionHash = id,
                                  !.submitted = Append(@, branchOp(a.branch))],
                        "VERIFYING")
    ELSE catchFailure(a, "send failed")

\* STEP 8 of the effect: settlementAgent.settle(input) is started and not
\* awaited.  signer is the wallet account selected in the browser at that
\* moment.  The call runs up to the sending of its transaction; nothing of the
\* program's state is read between PREPARING and the send.
SettleStart(s, signer, connected, sent) ==
    /\ effectPc[s] = "feedbackDone"
    /\ userWallet[s] # NoWallet
    /\ attempt[s].state = "IDLE"
    /\ LET id == <<"settle", s>>
           a == execute(settleStart([walletAddress |-> userWallet[s],
                                     finalScore |-> evaluationResult[s].finalScore,
                                     status |-> evaluationResult[s].status],
                                    signer, connected),
                        id, sent)
       IN  /\ attempt' = [attempt EXCEPT ![s] = a]
           /\ txs' = IF a.state = "VERIFYING"
                     THEN [txs EXCEPT ![id] =
                             Pending(branchOp(a.branch), a.signer, a.input.walletAddress)]
                     ELSE txs
    /\ effectPc' = [effectPc EXCEPT ![s] = "done"]
    /\ UNCHANGED ledgerVars
    /\ UNCHANGED <<callStatus, userWallet, processingFeedback, evaluationResult, lock, backoff>>

\* tx.wait() and verifySettlement: wait() throws when the receipt has status 0
AwaitReceipt(s, rpc) ==
    /\ attempt[s].state = "VERIFYING"
    /\ txs[attempt[s].transactionHash].state = "mined"
    /\ LET a == attempt[s]
           receipt == txs[a.transactionHash]
           v == [a EXCEPT !.checks = verificationReads(rpc)]
       IN  attempt' = [attempt EXCEPT ![s] =
              IF receipt.status # 1 THEN catchFailure(a, receipt.reason)
              ELSE IF verifySettlement(rpc, receipt.status) THEN complete(v)
              ELSE catchFailure(v, "Settlement verification failed")]
    /\ UNCHANGED ledgerVars
    /\ UNCHANGED <<txs, lock, backoff>>
    /\ UNCHANGED agentVars

(* settleWithRetry (PROJECT_ANALYSIS.md, "Retry Logic") *)

\* settleWithRetry(input, maxRetries = 3)
maxRetries == 3

\* the statuses a caller of settle can pass: the two verdicts and anything else
InputStatuses == {"pass", "fail", "invalid"}

\* one iteration of the loop: agent.settle(input) is called again from the
\* start; a new transaction takes the place of the one of the previous try
trySettle(s, input, tries, signer, connected, sent) ==
    LET id == <<"settle", s>>
        a == [execute(settleStart(input, signer, connected), id, sent)
                EXCEPT !.tries = tries]
    IN  /\ attempt' = [attempt EXCEPT ![s] = a]
        /\ txs' = IF a.state = "VERIFYING"
                  THEN [txs EXCEPT ![id] =
                          Pending(branchOp(a.branch), a.signer, a.input.walletAddress)]
                  ELSE txs

\* the first iteration of settleWithRetry(input)
SettleWithRetry(s, wallet, status, signer, connected, sent) ==
    /\ attempt[s].state = "IDLE"
    /\ trySettle(s, [walletAddress |-> wallet, finalScore |-> 0, status |-> status],
                 1, signer, connected, sent)
    /\ UNCHANGED ledgerVars
    /\ UNCHANGED agentVars
    /\ UNCHANGED <<lock, backoff>>

\* a later iteration: the previous call returned success false or threw, and
\* attempt < maxRetries; nothing is read before settle is called again
RetrySettle(s, signer, connected, sent) ==
    /\ attempt[s].state \in {"FAILED", "THROWN"}
    /\ attempt[s].tries >= 1
    /\ attempt[s].tries < maxRetries
    /\ trySettle(s, attempt[s].input, attempt[s].tries + 1, signer, connected, sent)
    /\ UNCHANGED ledgerVars
    /\ UNCHANGED agentVars
    /\ UNCHANGED <<lock, backoff>>

----------------------------------------------------------------------------
(* PaymentAgent.retryWithBackoff *)

\* the largest maxRetries a call is made with (the callers use the default 3)
MaxBackoffRetries == 4

\* the values of initialDelay a call is made with, in ms (the default is 1000)
InitialDelays == {500, 1000, 2000}

\* the errors fn can throw: the provider's rate-limit code, a message that
\* names the rate limit, and an error that is neither
NoError == [code |-> 0, message |-> "undefined"]

Errors == {[code |-> -32005, message |-> "limit exceeded"],
           [code |-> 429, message |-> "request failed: rate limit reached"],
           [code |-> -32000, message |-> "execution reverted"]}

\* error.code === -32005 || error.message?.includes('rate limit')
isRateLimit(error) ==
    \/ error.code = -32005
    \/ error.message \in {"request failed: rate limit reached"}

\* a delay that does not grow
backoffDelay_constant(initialDelay, i) == initialDelay

\* initialDelay * Math.pow(2, i)
backoffDelay(initialDelay, i) == initialDelay * 2^i

\* an entry of the log of a call: a call of fn, or a wait of ms milliseconds
FnCall == [kind |-> "call", ms |-> 0]

Wait(ms) == [kind |-> "wait", ms |-> ms]

\* i is the loop counter, log the calls of fn and the waits in the order made, errors the errors caught, lastError the
\* local of that name, thrown the error the call ended with
IdleBackoff == [pc |-> "idle", maxRetries |-> 0, initialDelay |-> 0, i |-> 0,
                log |-> <<>>, errors |-> <<>>, lastError |-> NoError,
                thrown |-> NoError]

\* the loop test i < maxRetries, and 'throw lastError' after the loop
loopTest(b) ==
    IF b.i < b.maxRetries THEN [b EXCEPT !.pc = "calling"]
    ELSE [b EXCEPT !.pc = "thrown", !.thrown = b.lastError]

\* retryWithBackoff(fn, maxRetries, initialDelay) is called (retries is maxRetries)
RetryWithBackoff(retries, initialDelay) ==
    /\ backoff.pc = "idle"
    /\ backoff' = loopTest([IdleBackoff EXCEPT !.maxRetries = retries,
                                               !.initialDelay = initialDelay])
    /\ UNCHANGED ledgerVars
    /\ UNCHANGED <<txs, callStatus, userWallet, processingFeedback, effectPc,
                   evaluationResult, attempt, lock>>

\* return await fn(): it returns, or throws an error that the catch block
\* keeps in lastError and either waits on or rethrows
CallFn(ok, error) ==
    /\ backoff.pc = "calling"
    /\ LET b == [backoff EXCEPT !.log = Append(@, FnCall)]
           caught == [b EXCEPT !.lastError = error, !.errors = Append(@, error)]
       IN  backoff' =
              IF ok THEN [b EXCEPT !.pc = "returned"]
              ELSE IF isRateLimit(error)
              THEN [caught EXCEPT !.pc = "sleeping",
                                  !.log = Append(@, Wait(backoffDelay(b.initialDelay, b.i)))]
              ELSE [caught EXCEPT !.pc = "thrown", !.thrown = error]
    /\ UNCHANGED ledgerVars
    /\ UNCHANGED <<txs, callStatus, userWallet, processingFeedback, effectPc,
                   evaluationResult, attempt, lock>>

\* the timer of the wait fires: continue, i++, and the loop test
Wake ==
    /\ backoff.pc = "sleeping"
    /\ backoff' = loopTest([backoff EXCEPT !.i = @ + 1])
    /\ UNCHANGED ledgerVars
    /\ UNCHANGED <<txs, callStatus, userWallet, processingFeedback, effectPc,
                   evaluationResult, attempt, lock>>

----------------------------------------------------------------------------
(* PaymentAgent.lockTokensInEscrow *)

\* a deployed contract other than the escrow that a requirement can name as
\* its destinationAddress
OtherContract == "other"

Destinations == {Escrow, OtherContract}

\* allowanceRead before tokenContract.allowance has been read
NoRead == -1

NoVerification == [success |-> FALSE, error |-> "none"]

NoLockResult == [returned |-> FALSE, success |-> FALSE, transactionHash |-> NoTx,
                 state |-> "none", error |-> ""]

\* handlePaymentFlow around a call of lockTokensInEscrow: notifyResult is what
\* notifyServerAndUnlock returned, progress its progress updates, result what
\* handlePaymentFlow returned
NoFlow == [returned |-> FALSE, notifyResult |-> NoVerification, progress |-> <<>>,
           result |-> NoLockResult]

\* wallet is signer.getAddress() read at the start, signer the signer of the
\* contract instances, network what the chain check met, stage the step the call
\* has reached, allowanceRead the allowance the call has read, sends the calls
\* of approve / stake made, escrowVerification the result of
\* verifyEscrowLocking, errorCode the code of the error caught
IdleLock == [pc |-> "idle", state |-> "IDLE", wallet |-> NoWallet, signer |-> NoWallet,
             destination |-> "none", network |-> "none", stage |-> "start",
             allowanceRead |-> NoRead, sends |-> <<>>,
             approveTx |-> NoTx, lockTx |-> NoTx, progress |-> <<>>,
             escrowVerification |-> NoVerification, errorCode |-> "",
             result |-> NoLockResult, flow |-> NoFlow]

\* PaymentAgent.updateProgress(state, message, transactionHash)
lockProgress(l, state) ==
    [l EXCEPT !.state = state, !.progress = Append(@, state)]

\* the catch block without the test of the error code
lockCatch_allFailed(l, code, message) ==
    [lockProgress(l, "FAILED") EXCEPT
        !.pc = "done",
        !.errorCode = code,
        !.result = [returned |-> TRUE, success |-> FALSE, transactionHash |-> NoTx,
                    state |-> "FAILED", error |-> message]]

\* the catch block of lockTokensInEscrow: REJECTED for the wallet's rejection
\* codes, FAILED for every other error
lockCatch(l, code, message) ==
    LET state == IF code \in {"ACTION_REJECTED", "4001"} THEN "REJECTED" ELSE "FAILED"
    IN  [lockProgress(l, state) EXCEPT
            !.pc = "done",
            !.errorCode = code,
            !.result = [returned |-> TRUE, success |-> FALSE, transactionHash |-> NoTx,
                        state |-> state,
                        error |-> IF state = "REJECTED"
                                  THEN "Transaction rejected by user" ELSE message]]

\* the success path of lockTokensInEscrow
lockComplete(l) ==
    [lockProgress(l, "COMPLETE") EXCEPT
        !.pc = "done",
        !.result = [returned |-> TRUE, success |-> TRUE, transactionHash |-> l.lockTx,
                    state |-> "COMPLETE", error |-> ""]]

\* the error code of what the wallet does with a request to sign
decisionCode(decision) ==
    CASE decision = "reject" -> "ACTION_REJECTED"
      [] decision = "reject4001" -> "4001"
      [] decision = "rateLimit" -> "-32005"
      [] OTHER -> "UNKNOWN_ERROR"

\* what the wallet can do with a request to sign and send: sign it, decline it
\* (ethers reports ACTION_REJECTED, the provider 4001), or the RPC node fails
\* with a rate-limit error or another error
Decisions == {"sign", "reject", "reject4001", "rateLimit", "error"}

\* what the chain check of lockTokensInEscrow can meet: the required chain
\* ("match"); another chain and a switch request that succeeds, after which the
\* chain read again is the required one ("switched") or is not ("stillWrong");
\* a switch the user declines, reported with a message that names the user's
\* rejection ("refused") or with the bare code 4001 ("refusedCode"); a chain the
\* wallet does not know (code 4902) that is then added ("added") or not
\* ("addFailed")
Networks == {"match", "switched", "stillWrong", "refused", "refusedCode",
             "added", "addFailed"}

\* the chain check and the switch (lines 123-187): whether the call goes on
\* and, if not, the error that reaches the outer catch.  After a successful
\* switch 'wallet = newWallet' assigns to a const: a TypeError, which the
\* inner catch rethrows.  After wallet_addEthereumChain the chain is not read
\* again.
switchNetwork(net) ==
    CASE net = "match" -> [proceed |-> TRUE, code |-> "", error |-> ""]
      [] net = "switched" ->
            [proceed |-> FALSE, code |-> "TypeError",
             error |-> "Assignment to constant variable."]
      [] net = "stillWrong" ->
            [proceed |-> FALSE, code |-> "",
             error |-> "Network switch failed. Please manually switch to Monad Testnet."]
      [] net = "refused" ->
            [proceed |-> FALSE, code |-> "",
             error |-> "Please switch to Monad Testnet in MetaMask to continue."]
      [] net = "refusedCode" ->
            [proceed |-> FALSE, code |-> "4001", error |-> "Request rejected"]
      [] net = "added" -> [proceed |-> TRUE, code |-> "", error |-> ""]
      [] net = "addFailed" ->
            [proceed |-> FALSE, code |-> "",
             error |-> "Failed to add Monad Testnet to MetaMask. Please add it manually."]

\* what the environment checks and the reads before the balance check can
\* meet: nothing wrong, no wallet extension, no code at the escrow or the
\* token address, or a read that retryWithBackoff gave up on
PreChecks == {"ok", "MetaMask not found", "Escrow contract not found",
              "Token contract not found", "rate limit"}

\* an allowance check that never asks for an approval
needsApproval_never(currentAllowance, stakeAmount) == FALSE

\* if (allowance < stakeAmount)
needsApproval(currentAllowance, stakeAmount) == currentAllowance < stakeAmount

\* a verification that looks at the status of the receipt only
verifyEscrowLocking_statusOnly(rpc, receipt, wallet, destination) ==
    IF rpc = "noProvider" THEN [success |-> FALSE, error |-> "No provider available"]
    ELSE IF rpc = "error" THEN [success |-> FALSE, error |-> "Failed to verify escrow locking"]
    ELSE IF rpc = "null" THEN [success |-> FALSE, error |-> "Transaction not found"]
    ELSE IF receipt.status # 1
         THEN [success |-> FALSE, error |-> "Transaction failed on-chain"]
    ELSE [success |-> TRUE, error |-> ""]

\* verifyEscrowLocking(transactionHash, userWallet, escrowContract, expectedAmount):
\* rpc is what the provider does ("ok": getTransactionReceipt returns the
\* receipt, "null": it returns none, "error": it throws, "noProvider": no
\* window.ethereum).  Addresses are compared lower-cased; the model's addresses
\* are lower-case already.  expectedAmount is not looked at.
verifyEscrowLocking(rpc, receipt, wallet, destination) ==
    IF rpc = "noProvider" THEN [success |-> FALSE, error |-> "No provider available"]
    ELSE IF rpc = "error" THEN [success |-> FALSE, error |-> "Failed to verify escrow locking"]
    ELSE IF rpc = "null" THEN [success |-> FALSE, error |-> "Transaction not found"]
    ELSE IF receipt.status # 1
         THEN [success |-> FALSE, error |-> "Transaction failed on-chain"]
    ELSE IF receipt.to # destination
         THEN [success |-> FALSE, error |-> "Transaction not sent to escrow contract"]
    ELSE IF receipt.from # wallet
         THEN [success |-> FALSE, error |-> "Transaction not from user wallet"]
    ELSE [success |-> TRUE, error |-> ""]

\* the receipt of a mined transaction sent through the escrow contract instance
ReceiptOf(id) == [status |-> txs[id].status, from |-> txs[id].from, to |-> Escrow]

\* lockTokensInEscrow(requirement) up to the approval: the wallet extension
\* check, the chain check, the deployed-code checks, the stake amount, the
\* balance check, the allowance read, and the approval request when needed.
\* otherAllowance is the wallet's allowance to a destination other than the escrow.
LockStart(s, wallet, signer, destination, pre, net, otherAllowance, decision) ==
    /\ lock[s].pc = "idle"
    /\ LET l0 == lockProgress([IdleLock EXCEPT !.wallet = wallet, !.signer = signer,
                                              !.destination = destination],
                              "APPROVING")
           sw == switchNetwork(net)
           ln == [(IF net = "match" THEN l0 ELSE lockProgress(l0, "APPROVING"))
                     EXCEPT !.network = net, !.stage = "network"]
           lc == [ln EXCEPT !.stage = "contracts"]
           l1 == [lockProgress(lc, "APPROVING") EXCEPT !.stage = "balance"]
           currentAllowance == IF destination = Escrow THEN allowance[wallet]
                               ELSE otherAllowance
           l2 == [lockProgress(l1, "APPROVING") EXCEPT !.allowanceRead = currentAllowance,
                                                       !.stage = "allowance"]
           l3 == [lockProgress(l2, "APPROVING") EXCEPT !.sends = Append(@, "approve"),
                                                       !.stage = "approve"]
           id == <<"approve", s>>
       IN  IF pre = "MetaMask not found"
           THEN /\ lock' = [lock EXCEPT ![s] = lockCatch(l0, "", pre)]
                /\ UNCHANGED txs
           ELSE IF ~sw.proceed
           THEN /\ lock' = [lock EXCEPT ![s] = lockCatch(ln, sw.code, sw.error)]
                /\ UNCHANGED txs
           ELSE IF pre # "ok"
           THEN /\ lock' = [lock EXCEPT ![s] =
                              lockCatch(lc, IF pre = "rate limit" THEN "-32005" ELSE "", pre)]
                /\ UNCHANGED txs
           ELSE IF balances[wallet] < STAKE_AMOUNT
           THEN /\ lock' = [lock EXCEPT ![s] =
                              lockCatch(l1, "", "Insufficient token balance")]
                /\ UNCHANGED txs
           ELSE IF ~needsApproval(currentAllowance, STAKE_AMOUNT)
           THEN /\ lock' = [lock EXCEPT ![s] = [l2 EXCEPT !.pc = "staking"]]
                /\ UNCHANGED txs
           ELSE IF decision = "sign"
           THEN /\ lock' = [lock EXCEPT ![s] =
                              lockProgress([l3 EXCEPT !.pc = "approving",
                                                      !.approveTx = id],
                                           "PROCESSING")]
                /\ txs' = [txs EXCEPT ![id] = Pending("approve", signer, destination)]
           ELSE /\ lock' = [lock EXCEPT ![s] =
                              lockCatch(l3, decisionCode(decision), "approve failed")]
                /\ UNCHANGED txs
    /\ UNCHANGED ledgerVars
    /\ UNCHANGED agentVars
    /\ UNCHANGED <<attempt, backoff>>

\* await approveTx.wait()
ApproveConfirmed(s) ==
    /\ lock[s].pc = "approving"
    /\ txs[lock[s].approveTx].state = "mined"
    /\ lock' = [lock EXCEPT ![s] =
                  IF txs[lock[s].approveTx].status = 1
                  THEN [@ EXCEPT !.pc = "staking"]
                  ELSE lockCatch(@, "CALL_EXCEPTION", txs[lock[s].approveTx].reason)]
    /\ UNCHANGED ledgerVars
    /\ UNCHANGED agentVars
    /\ UNCHANGED <<txs, attempt, backoff>>

\* escrowContract.stake({gasLimit}): called once, outside retryWithBackoff, and
\* sent without gas estimation, so it is sent even if it will revert
SendStake(s, decision) ==
    /\ lock[s].pc = "staking"
    /\ LET l1 == [lockProgress(lock[s], "PROCESSING") EXCEPT
                     !.sends = Append(@, "stake"), !.stage = "stake"]
           id == <<"lock", s>>
       IN  IF decision = "sign"
           THEN /\ lock' = [lock EXCEPT ![s] =
                              lockProgress([l1 EXCEPT !.pc = "waiting", !.lockTx = id],
                                           "VERIFYING")]
                /\ txs' = [txs EXCEPT ![id] = Pending("stake", l1.signer, l1.signer)]
           ELSE /\ lock' = [lock EXCEPT ![s] =
                              lockCatch(l1, decisionCode(decision), "stake failed")]
                /\ UNCHANGED txs
    /\ UNCHANGED ledgerVars
    /\ UNCHANGED agentVars
    /\ UNCHANGED <<attempt, backoff>>

\* await lockTx.wait() (it throws on a receipt of status 0), verifyEscrowLocking,
\* and the result
LockConfirmed(s, rpc) ==
    /\ lock[s].pc = "waiting"
    /\ txs[lock[s].lockTx].state = "mined"
    /\ LET l == [lock[s] EXCEPT !.stage = "verify"]
           receipt == ReceiptOf(l.lockTx)
           v == verifyEscrowLocking(rpc, receipt, l.wallet, l.destination)
           lv == [l EXCEPT !.escrowVerification = v]
       IN  lock' = [lock EXCEPT ![s] =
              IF receipt.status # 1
              THEN lockCatch(l, "CALL_EXCEPTION", txs[l.lockTx].reason)
              ELSE IF v.success THEN lockComplete(lv)
              ELSE lockCatch(lv, "", v.error)]
    /\ UNCHANGED ledgerVars
    /\ UNCHANGED agentVars
    /\ UNCHANGED <<txs, attempt, backoff>>

\* notifyServerAndUnlock(transactionHash, ...): the receipt is fetched again;
\* the call to the server is simulated by a timer
notifyServerAndUnlock(rpc) ==
    CASE rpc = "ok" -> [success |-> TRUE, error |-> ""]
      [] rpc = "null" ->
            [success |-> FALSE, error |-> "Cannot notify server - transaction not found"]
      [] OTHER -> [success |-> FALSE, error |-> "Failed to notify server"]

\* a flow that reports a failed notification as a failed payment
flowResult_strict(lockResult, n) ==
    IF n.success THEN lockResult
    ELSE [returned |-> TRUE, success |-> FALSE, transactionHash |-> NoTx,
          state |-> "FAILED", error |-> n.error]

\* what handlePaymentFlow returns after notifyServerAndUnlock returned n: a
\* failed notification is logged as a warning, the lock result is returned
flowResult(lockResult, n) == lockResult

\* handlePaymentFlow(userId) after lockTokensInEscrow has returned: a failed
\* lock is returned as it is; after a successful one the signer is fetched
\* again (an error there reaches the catch block), the server is notified, and
\* the lock result is returned whatever notifyServerAndUnlock returned
HandlePaymentFlowReturn(s, signerOk, rpc) ==
    /\ lock[s].pc = "done"
    /\ LET l == lock[s]
           n == notifyServerAndUnlock(rpc)
       IN  lock' = [lock EXCEPT ![s] =
              IF ~l.result.success
              THEN [l EXCEPT !.pc = "returned", !.flow.returned = TRUE,
                             !.flow.result = l.result]
              ELSE IF ~signerOk
              THEN [l EXCEPT !.pc = "returned", !.flow.returned = TRUE,
                             !.flow.result =
                                 [returned |-> TRUE, success |-> FALSE,
                                  transactionHash |-> NoTx, state |-> "FAILED",
                                  error |-> "Payment flow failed"]]
              ELSE [l EXCEPT !.pc = "returned", !.flow.returned = TRUE,
                             !.flow.progress = <<"VERIFYING">>,
                             !.flow.notifyResult = n,
                             !.flow.result = flowResult(l.result, n)]]
    /\ UNCHANGED ledgerVars
    /\ UNCHANGED agentVars
    /\ UNCHANGED <<txs, attempt, backoff>>

\* a pending transaction sent to an address with no code is mined as a plain
\* transfer of nothing: its receipt has status 1 and the ledger is untouched
MineNoCode(id) ==
    /\ txs[id].state = "pending"
    /\ TargetOf(id) = NoCodeAddress
    /\ \A other \in TxIds :
          (txs[other].state = "pending" /\ txs[other].from = txs[id].from)
             => txs[other].nonce >= txs[id].nonce
    /\ txs' = [txs EXCEPT ![id] = [@ EXCEPT !.state = "mined", !.status = 1]]
    /\ UNCHANGED ledgerVars
    /\ UNCHANGED agentVars
    /\ UNCHANGED <<attempt, lock, backoff>>

\* settle(input) with NEXT_PUBLIC_STAKE_ADDRESS set to address: getContract()
\* builds the contract on whatever the variable holds, and reward / slash is
\* sent unless ethers cannot make an address of it
SettleAt(s, wallet, status, signer, address) ==
    /\ attempt[s].state = "IDLE"
    /\ LET id == <<"settle", s>>
           input == [walletAddress |-> wallet, finalScore |-> 0, status |-> status]
           a0 == [settleStart(input, signer, address # BadAddress)
                     EXCEPT !.escrowAddress = address]
           a == execute(a0, id, TRUE)
       IN  /\ attempt' = [attempt EXCEPT ![s] = a]
           /\ txs' = IF a.state = "VERIFYING"
                     THEN [txs EXCEPT ![id] =
                             Pending(branchOp(a.branch), a.signer, a.input.walletAddress)]
                     ELSE txs
    /\ UNCHANGED ledgerVars
    /\ UNCHANGED agentVars
    /\ UNCHANGED <<lock, backoff>>

PipelineIdle ==
    /\ txs = [id \in TxIds |-> NoTxRec]
    /\ callStatus = [s \in Sessions |-> "INACTIVE"]
    /\ userWallet = [s \in Sessions |-> NoWallet]
    /\ processingFeedback = [s \in Sessions |-> FALSE]
    /\ effectPc = [s \in Sessions |-> "idle"]
    /\ evaluationResult = [s \in Sessions |-> NoDecision]
    /\ attempt = [s \in Sessions |-> IdleAttempt]
    /\ lock = [s \in Sessions |-> IdleLock]
    /\ backoff = IdleBackoff

----------------------------------------------------------------------------
(* Specifications *)

LedgerInit ==
    /\ userStakes = [a \in Accounts |-> 0]
    /\ balances = [h \in Holders |-> IF h = Escrow THEN 0 ELSE InitTokens]
    /\ allowance = [a \in Accounts |-> 0]
    /\ events = <<>>
    /\ lastCall = NoCall

\* reward(user) or slash(user) by sender, re-entered from the token transfer
CallSettleReentered(op, sender, user, innerOp, innerSender, caught) ==
    /\ Len(events) < MaxEvents - 1
    /\ LET x == settleStakeReentered(Ledger, sender, user,
                                     IF op = "reward" THEN user ELSE Admin,
                                     IF op = "reward" THEN "Rewarded" ELSE "Slashed",
                                     innerOp, innerSender, caught)
       IN  /\ userStakes' = x.r.ledger.userStakes
           /\ balances' = x.r.ledger.balances
           /\ allowance' = x.r.ledger.allowance
           /\ events' = x.r.ledger.events
           /\ lastCall' = [CallRecord(op, sender, user, x.r) EXCEPT !.inner = x.rec]
    /\ UNCHANGED pipelineVars

\* token.transfer(escrow, STAKE_AMOUNT) sent by an account: tokens sent to the
\* escrow's address without a call of InterviewStake
TokenTransfer(from) ==
    /\ balances[from] >= STAKE_AMOUNT
    /\ balances' = erc20Transfer(balances, from, Escrow, STAKE_AMOUNT)
    /\ UNCHANGED <<userStakes, allowance, events, lastCall>>
    /\ UNCHANGED pipelineVars

Init == LedgerInit /\ PipelineIdle

Next ==
    \/ \E u \in Accounts : Approve(u)
    \/ \E u \in Accounts : CallStake(u)
    \/ \E s \in Accounts, u \in Accounts : CallReward(s, u)
    \/ \E s \in Accounts, u \in Accounts : CallSlash(s, u)

Spec == Init /\ [][Next]_vars

\* the ledger with, besides, settlements re-entered from the token transfer
ReentryNext ==
    \/ Next
    \/ \E op \in {"reward", "slash"}, sender \in Accounts, user \in Accounts,
          innerOp \in {"reward", "slash"}, innerSender \in Accounts, caught \in BOOLEAN :
          CallSettleReentered(op, sender, user, innerOp, innerSender, caught)

SpecReentry == Init /\ [][ReentryNext]_vars

\* the ledger with, besides, plain token transfers to the escrow's address
TokenNext ==
    \/ Next
    \/ \E from \in Accounts : TokenTransfer(from)

SpecToken == Init /\ [][TokenNext]_vars

Repeat(e, n) == [i \in 1..n |-> e]

StakedEvent(u) == [name |-> "Staked", user |-> u, amount |-> STAKE_AMOUNT]

\* the ledger after every account a has locked count[a] stakes
LedgerAfterStakes(count) ==
    /\ userStakes = [a \in Accounts |-> count[a] * STAKE_AMOUNT]
    /\ balances = [h \in Holders |->
                      IF h = Escrow
                      THEN (count[Admin] + count["c1"] + count["c2"]) * STAKE_AMOUNT
                      ELSE InitTokens - count[h] * STAKE_AMOUNT]
    /\ allowance = [a \in Accounts |-> 0]
    /\ events = Repeat(StakedEvent(Admin), count[Admin])
                  \o Repeat(StakedEvent("c1"), count["c1"])
                  \o Repeat(StakedEvent("c2"), count["c2"])
    /\ lastCall = NoCall

\* the wallet accounts the browser of the sessions can have selected
Wallets == {Admin, "c1"}

\* stakes locked before the interviews: none, one, or two accumulated
StakeCounts == {count \in [Accounts -> 0..2] : count[Admin] <= 1 /\ count["c2"] = 0}

\* interviews start after the candidates have locked their stakes (or not)
PipelineInit ==
    /\ \E count \in StakeCounts : LedgerAfterStakes(count)
    /\ PipelineIdle

PipelineNext ==
    \/ \E s \in Sessions, w \in Wallets : HandleCall(s, w)
    \/ \E s \in Sessions : CallEnd(s)
    \/ \E s \in Sessions, enough \in BOOLEAN, evalOk \in BOOLEAN, score \in ScoreSamples :
          EvaluateAndDecide(s, enough, evalOk, score)
    \/ \E s \in Sessions, genOk \in BOOLEAN, fbScore \in ScoreSamples :
          CreateFeedback(s, genOk, fbScore)
    \/ \E s \in Sessions, signer \in Wallets, connected \in BOOLEAN, sent \in BOOLEAN :
          SettleStart(s, signer, connected, sent)
    \/ \E id \in TxIds : Mine(id)
    \/ \E s \in Sessions, rpc \in {"ok", "null", "error"} : AwaitReceipt(s, rpc)

SpecPipeline == PipelineInit /\ [][PipelineNext]_vars

\* one interview of a candidate who locked one stake, over every score 0..100
VerdictInit ==
    /\ LedgerAfterStakes([a \in Accounts |-> IF a = "c1" THEN 1 ELSE 0])
    /\ PipelineIdle

VerdictNext ==
    \/ \E w \in Wallets : HandleCall("s1", w)
    \/ CallEnd("s1")
    \/ \E enough \in BOOLEAN, evalOk \in BOOLEAN, score \in AllScores :
          EvaluateAndDecide("s1", enough, evalOk, score)
    \/ \E genOk \in BOOLEAN, fbScore \in ScoreSamples :
          CreateFeedback("s1", genOk, fbScore)
    \/ \E signer \in Wallets, connected \in BOOLEAN, sent \in BOOLEAN :
          SettleStart("s1", signer, connected, sent)
    \/ \E id \in TxIds : Mine(id)
    \/ \E rpc \in {"ok", "null", "error"} : AwaitReceipt("s1", rpc)

SpecVerdict == VerdictInit /\ [][VerdictNext]_vars

\* one caller of settleWithRetry, started after the candidates have locked (or not)
RetryNext ==
    \/ \E w \in Wallets, status \in InputStatuses, signer \in Wallets,
          connected \in BOOLEAN, sent \in BOOLEAN :
          SettleWithRetry("s1", w, status, signer, connected, sent)
    \/ \E signer \in Wallets, connected \in BOOLEAN, sent \in BOOLEAN :
          RetrySettle("s1", signer, connected, sent)
    \/ \E id \in TxIds : Mine(id)
    \/ \E rpc \in {"ok", "null", "error"} : AwaitReceipt("s1", rpc)

SpecRetry == PipelineInit /\ [][RetryNext]_vars

\* PaymentAgent calls of one session, over ledgers with earlier stakes (or none)
LockNext ==
    \/ \E w \in Wallets, signer \in Wallets, d \in Destinations,
          pre \in PreChecks, net \in Networks, otherAllowance \in {0, STAKE_AMOUNT},
          decision \in Decisions :
          LockStart("s1", w, signer, d, pre, net, otherAllowance, decision)
    \/ ApproveConfirmed("s1")
    \/ \E decision \in Decisions : SendStake("s1", decision)
    \/ \E rpc \in {"ok", "null", "error", "noProvider"} : LockConfirmed("s1", rpc)
    \/ \E signerOk \in BOOLEAN, rpc \in {"ok", "null", "error"} :
          HandlePaymentFlowReturn("s1", signerOk, rpc)
    \/ \E id \in TxIds : Mine(id)

SpecLock == PipelineInit /\ [][LockNext]_vars

\* settlements of one session with the escrow address configured well or badly
AddressNext ==
    \/ \E w \in Wallets, status \in InputStatuses, signer \in Wallets,
          address \in {Escrow, NoCodeAddress, BadAddress} :
          SettleAt("s1", w, status, signer, address)
    \/ \E id \in TxIds : Mine(id)
    \/ \E id \in TxIds : MineNoCode(id)
    \/ \E rpc \in {"ok", "null", "error"} : AwaitReceipt("s1", rpc)

SpecAddress == PipelineInit /\ [][AddressNext]_vars

\* calls of retryWithBackoff with every maxRetries and initialDelay above
BackoffNext ==
    \/ \E retries \in 0..MaxBackoffRetries, initialDelay \in InitialDelays :
          RetryWithBackoff(retries, initialDelay)
    \/ \E ok \in BOOLEAN, error \in Errors : CallFn(ok, error)
    \/ Wake

SpecBackoff == Init /\ [][BackoffNext]_vars

----------------------------------------------------------------------------
(* Reading the event log *)

IsSettleEvent(e, u) == e.user = u /\ e.name \in {"Rewarded", "Slashed"}

\* index of the last Rewarded / Slashed event of u, 0 when there is none
LastSettled(u) ==
    LET S == {i \in 1..Len(events) : IsSettleEvent(events[i], u)}
    IN  IF S = {} THEN 0 ELSE CHOOSE i \in S : \A j \in S : j <= i

\* number of stakes of u that no reward or slash has settled yet
OpenStakes(u) ==
    Cardinality({i \in 1..Len(events) :
                    /\ i > LastSettled(u)
                    /\ events[i].name = "Staked"
                    /\ events[i].user = u})

\* the candidate's stake is locked and unsettled
Locked(u) == OpenStakes(u) > 0

\* this step is a call of stake / reward / slash
IsCallStep == lastCall' # lastCall \/ events' # events

----------------------------------------------------------------------------
(* Claims about the ledger, checked under Spec *)

IsSettleCall(c) == c.op \in {"reward", "slash"}

\* C1 (as stated): userStakes[candidate] is the fixed stake amount exactly when
\* the candidate's stake is locked and unsettled and 0 otherwise; it takes no
\* other value.
C1_StakeIsAmountOrZero ==
    \A u \in Accounts :
        /\ userStakes[u] \in {0, STAKE_AMOUNT}
        /\ userStakes[u] = STAKE_AMOUNT <=> Locked(u)

\* C1 (amended): userStakes[candidate] is STAKE_AMOUNT times the number of the
\* candidate's stakes that no reward or slash has settled yet; it is 0 exactly
\* when no stake is locked, and the fixed amount exactly when one stake is.
C1_StakeIsMultipleOfOpenStakes ==
    \A u \in Accounts :
        /\ userStakes[u] = STAKE_AMOUNT * OpenStakes(u)
        /\ userStakes[u] = 0 <=> ~Locked(u)
        /\ userStakes[u] = STAKE_AMOUNT <=> OpenStakes(u) = 1

\* two stakes of one candidate accumulated, none settled
C1_Witness ==
    \E u \in Candidates : OpenStakes(u) = 2 /\ userStakes[u] = 2 * STAKE_AMOUNT

\* C2: with a stake of C locked, the first settlement call of the admin for C
\* succeeds and moves the recorded amount out of the escrow; a settlement call of
\* the admin for C that follows a successful one reverts with 'No stake found'
\* and moves nothing, as does every such call while no stake of C is locked: of
\* two calls for one stake exactly one succeeds, whatever their kinds and order.
C2_ExactlyOneSettlement ==
    [][ (IsCallStep /\ IsSettleCall(lastCall') /\ lastCall'.sender = Admin) =>
          LET u == lastCall'.user
          IN  /\ Locked(u) =>
                    /\ lastCall'.ok
                    /\ userStakes'[u] = 0
                    /\ balances'[Escrow] = balances[Escrow] - userStakes[u]
              /\ ~Locked(u) =>
                    /\ ~lastCall'.ok
                    /\ lastCall'.reason = "No stake found"
                    /\ balances' = balances
              /\ (IsSettleCall(lastCall) /\ lastCall.sender = Admin
                    /\ lastCall.user = u /\ lastCall.ok) =>
                    /\ ~lastCall'.ok
                    /\ lastCall'.reason = "No stake found"
                    /\ balances' = balances
                    /\ userStakes' = userStakes
                    /\ events' = events ]_vars

\* the second of two admin settlement calls for one stake has just reverted
C2_Witness ==
    /\ IsSettleCall(lastCall) /\ lastCall.sender = Admin
    /\ ~lastCall.ok /\ lastCall.reason = "No stake found"
    /\ events # <<>>
    /\ IsSettleEvent(events[Len(events)], lastCall.user)
    /\ Cardinality({i \in 1..Len(events) : events[i].user = lastCall.user}) = 2

\* C3: reward(user) and slash(user) called by an account other than the admin
\* always revert and leave userStakes, every token balance and the event log
\* unchanged.
C3_NonAdminSettleReverts ==
    [][ (IsCallStep /\ IsSettleCall(lastCall') /\ lastCall'.sender # Admin) =>
          /\ ~lastCall'.ok
          /\ lastCall'.reason = "Only admin allowed"
          /\ userStakes' = userStakes
          /\ balances' = balances
          /\ allowance' = allowance
          /\ events' = events ]_vars

\* a candidate called reward for a locked stake (its own or another's) and was refused
C3_Witness ==
    /\ IsSettleCall(lastCall) /\ lastCall.sender # Admin
    /\ ~lastCall.ok
    /\ userStakes[lastCall.user] > 0

----------------------------------------------------------------------------
(* Claims about the settlement pipeline, checked under SpecPipeline *)

SettleTx(s) == <<"settle", s>>

\* this step mines the transaction of the settlement attempt of session s,
\* which carries the ledger operation op, and the receipt has status 1
SettlementLands(s, op) ==
    /\ txs[SettleTx(s)].state = "pending"
    /\ txs[SettleTx(s)].op = op
    /\ txs'[SettleTx(s)].state = "mined"
    /\ txs'[SettleTx(s)].status = 1

SettledEvent(name, u, amount) == [name |-> name, user |-> u, amount |-> amount]

\* C4: round trip on a pass verdict.  An attempt that settled C as pass
\* (COMPLETE) has a mined reward(C) with a success receipt and a Rewarded event
\* for C in the log; the step in which that reward lands raises C's balance by
\* exactly the recorded stake (the stake amount after one lock), zeroes
\* userStakes[C] and emits Rewarded(C, amount) with that amount.
C4_PassRoundTrip ==
    /\ [](\A s \in Sessions :
            (attempt[s].state = "COMPLETE" /\ attempt[s].input.status = "pass") =>
               LET tx == txs[attempt[s].transactionHash]
                   C == attempt[s].input.walletAddress
               IN  /\ tx.state = "mined" /\ tx.status = 1
                   /\ tx.op = "reward" /\ tx.user = C
                   /\ \E i \in 1..Len(events) :
                         events[i].name = "Rewarded" /\ events[i].user = C)
    /\ [][ \A s \in Sessions :
             SettlementLands(s, "reward") =>
               LET C == txs[SettleTx(s)].user
               IN  /\ balances'[C] = balances[C] + userStakes[C]
                   /\ userStakes[C] = STAKE_AMOUNT =>
                         balances'[C] = balances[C] + STAKE_AMOUNT
                   /\ userStakes'[C] = 0
                   /\ events' = Append(events,
                                       SettledEvent("Rewarded", C, userStakes[C])) ]_vars

\* candidate c1 locked one stake, was settled as pass and has its tokens back
C4_Witness ==
    \E s \in Sessions :
        /\ attempt[s].state = "COMPLETE"
        /\ attempt[s].input.status = "pass"
        /\ attempt[s].input.walletAddress = "c1"
        /\ balances["c1"] = InitTokens
        /\ userStakes["c1"] = 0
        /\ events[Len(events)] = SettledEvent("Rewarded", "c1", STAKE_AMOUNT)

\* C5 (as stated): round trip on a fail verdict.  The step in which the slash of
\* an attempt lands raises the admin's balance by exactly the recorded stake,
\* leaves C's balance unchanged, zeroes userStakes[C] and emits Slashed(C, amount).
C5_FailRoundTrip_AnyCandidate ==
    [][ \A s \in Sessions :
          SettlementLands(s, "slash") =>
            LET C == txs[SettleTx(s)].user
            IN  /\ balances'[Admin] = balances[Admin] + userStakes[C]
                /\ balances'[C] = balances[C]
                /\ userStakes'[C] = 0
                /\ events' = Append(events,
                                    SettledEvent("Slashed", C, userStakes[C])) ]_vars

\* C5 (amended): as stated, for a candidate other than the admin; when the
\* admin is the candidate its own balance is the one that rises.  An attempt
\* that settled C as fail (COMPLETE) has a mined slash(C) with a success receipt
\* and a Slashed event for C in the log.
C5_FailRoundTrip ==
    /\ [](\A s \in Sessions :
            (attempt[s].state = "COMPLETE" /\ attempt[s].input.status = "fail") =>
               LET tx == txs[attempt[s].transactionHash]
                   C == attempt[s].input.walletAddress
               IN  /\ tx.state = "mined" /\ tx.status = 1
                   /\ tx.op = "slash" /\ tx.user = C
                   /\ \E i \in 1..Len(events) :
                         events[i].name = "Slashed" /\ events[i].user = C)
    /\ [][ \A s \in Sessions :
             SettlementLands(s, "slash") =>
               LET C == txs[SettleTx(s)].user
               IN  /\ balances'[Admin] = balances[Admin] + userStakes[C]
                   /\ userStakes[C] = STAKE_AMOUNT =>
                         balances'[Admin] = balances[Admin] + STAKE_AMOUNT
                   /\ C # Admin => balances'[C] = balances[C]
                   /\ userStakes'[C] = 0
                   /\ events' = Append(events,
                                       SettledEvent("Slashed", C, userStakes[C])) ]_vars

\* candidate c1 locked one stake and was settled as fail: the stake is the admin's
C5_Witness ==
    \E s \in Sessions :
        /\ attempt[s].state = "COMPLETE"
        /\ attempt[s].input.status = "fail"
        /\ attempt[s].input.walletAddress = "c1"
        /\ balances["c1"] = InitTokens - STAKE_AMOUNT
        /\ userStakes["c1"] = 0
        /\ events[Len(events)] = SettledEvent("Slashed", "c1", STAKE_AMOUNT)

\* C6 (checked under SpecVerdict, every score 0..100): the verdict is pass iff
\* the score is at least 65; settle called on that verdict sends reward for
\* pass and slash for fail.
C6_ThresholdAndRouting ==
    \A s \in Sessions :
        LET d == evaluationResult[s]
            a == attempt[s]
            tx == txs[SettleTx(s)]
        IN  /\ d # NoDecision =>
                  /\ d.status \in {"pass", "fail"}
                  /\ d.status = "pass" <=> d.finalScore >= 65
                  /\ d.finalScore = 65 => d.status = "pass"
                  /\ d.finalScore = 64 => d.status = "fail"
            /\ a.state # "IDLE" => a.input.status = d.status
            /\ tx.state # "none" =>
                  /\ d.status = "pass" => tx.op = "reward"
                  /\ d.status = "fail" => tx.op = "slash"
                  /\ a.submitted = <<tx.op>>

\* the score on the threshold: verdict pass, reward sent
C6_Witness ==
    /\ evaluationResult["s1"].finalScore = 65
    /\ evaluationResult["s1"].status = "pass"
    /\ txs[SettleTx("s1")].op = "reward"

\* C7: one call of settle sends at most one ledger operation, never both
\* reward and slash, whatever fails during the call.
C7_AtMostOneOperation ==
    \A s \in Sessions :
        LET ops == attempt[s].submitted
        IN  /\ Len(ops) <= 1
            /\ ~(\E i, j \in 1..Len(ops) : ops[i] = "reward" /\ ops[j] = "slash")

\* an attempt that failed after it had sent its one transaction
C7_Witness ==
    \E s \in Sessions :
        /\ attempt[s].state = "FAILED"
        /\ Len(attempt[s].submitted) = 1
        /\ txs[SettleTx(s)].state = "mined"

\* C8: every settlement transaction of an interview is the one the verdict's
\* status names (reward for pass, slash for fail); none comes from a score the
\* pipeline compared with the threshold itself.
C8_RoutingFromVerdictOnly ==
    \A id \in TxIds :
        txs[id].state # "none" =>
            LET d == evaluationResult[id[2]]
            IN  /\ d.status = "pass" => txs[id].op = "reward"
                /\ d.status = "fail" => txs[id].op = "slash"

\* C9: once a settlement for candidate C is COMPLETE, a settlement request for
\* the same stake that starts later sends no transaction.
C9_NoResubmitAfterComplete ==
    [][ \A s, t \in Sessions :
          (/\ s # t
           /\ attempt[t].state = "COMPLETE"
           /\ attempt[s].state = "IDLE"
           /\ userWallet[s] = attempt[t].input.walletAddress)
          => txs'[SettleTx(s)].state = "none" ]_vars

\* between the sending of its transaction and its terminal state
InFlight(s) == attempt[s].state \in {"EXECUTING", "VERIFYING"}

\* C10: at most one settlement attempt for a locked stake is in flight at any
\* time: while one attempt is in flight no second one has sent a transaction
\* for the same candidate.
C10_SingleFlight ==
    \A s, t \in Sessions :
        (/\ s # t
         /\ InFlight(s) /\ InFlight(t)
         /\ txs[SettleTx(s)].state = "pending" /\ txs[SettleTx(t)].state = "pending"
         /\ userStakes[attempt[s].input.walletAddress] > 0)
           => attempt[s].input.walletAddress # attempt[t].input.walletAddress

----------------------------------------------------------------------------
(* Claims about the checks of a settlement attempt, its retries and its
   notification *)

ValidStatus(status) == status \in {"pass", "fail"}

\* this step sends the settlement transaction of session s
SettlementSent(s) ==
    /\ txs'[SettleTx(s)] # txs[SettleTx(s)]
    /\ txs'[SettleTx(s)].state = "pending"

BranchEvent(b) == IF b = "settlePass" THEN "Rewarded" ELSE "Slashed"

C15_RetryRereadsLedger ==
    [][ \A s \in Sessions :
          (/\ attempt[s].tries >= 1
           /\ attempt'[s].tries = attempt[s].tries + 1
           /\ txs[SettleTx(s)].status = 1
           /\ userStakes[attempt[s].input.walletAddress] = 0)
          => ~SettlementSent(s) ]_vars

\* C16 (as stated): every attempt that has returned (COMPLETE or FAILED) has
\* called notifyBackend exactly once.
C16_NotifiedExactlyOnce ==
    \A s \in Sessions :
        attempt[s].result.returned => attempt[s].notified = 1

\* C16 (amended): an attempt reports to the backend exactly once when it ends
\* COMPLETE and not at all when it ends FAILED; no attempt reports twice.
C16_NotifiedOnCompleteOnly ==
    \A s \in Sessions :
        LET a == attempt[s]
        IN  /\ a.notified = IF a.state = "COMPLETE" THEN 1 ELSE 0
            /\ a.result.returned => a.state \in {"COMPLETE", "FAILED"}
            /\ (a.result.returned /\ a.result.success) => a.notified = 1
            /\ (a.result.returned /\ ~a.result.success) => a.notified = 0

\* one attempt ended COMPLETE and reported, another ended FAILED and did not
C16_Witness ==
    \E s, t \in Sessions :
        /\ attempt[s].state = "COMPLETE" /\ attempt[s].notified = 1
        /\ attempt[t].state = "FAILED" /\ attempt[t].notified = 0

\* every end-of-call flow has ended, no attempt is in flight and no transaction
\* is pending: no action of the pipeline is enabled any more
Quiescent ==
    /\ \A s \in Sessions : effectPc[s] = "done" /\ ~InFlight(s)
    /\ \A id \in TxIds : txs[id].state # "pending"

\* C17: no stake stays locked after its verdict: once the flows of all
\* interviews have run to their end, the candidate of every interview that got
\* a verdict has userStakes 0.
C17_ResolvedAfterVerdict ==
    Quiescent =>
        \A s \in Sessions :
            evaluationResult[s] # NoDecision => userStakes[userWallet[s]] = 0

\* C18: a settlement attempt is started only after lockTokensInEscrow has
\* returned success for the candidate in the same session.
C18_SettleAfterLock ==
    \A s \in Sessions :
        attempt[s].state # "IDLE" =>
            /\ lock[s].result.success
            /\ lock[s].wallet = attempt[s].input.walletAddress

----------------------------------------------------------------------------
(* Claims about PaymentAgent.lockTokensInEscrow, checked under SpecLock *)

\* the lock transaction of l has a success receipt, went to the destination
\* the requirement names and came from the wallet read at the start
LockReceiptGood(l) ==
    /\ l.lockTx # NoTx
    /\ txs[l.lockTx].state = "mined"
    /\ ReceiptOf(l.lockTx).status = 1
    /\ ReceiptOf(l.lockTx).to = l.destination
    /\ ReceiptOf(l.lockTx).from = l.wallet

\* C13: a lock is reported established (success, COMPLETE) only if the receipt
\* of its lock transaction was fetched and has success status, the escrow as
\* destination and the candidate's wallet as origin; a call that sent its lock
\* transaction and found any of these missing ends FAILED.
C13_LockSuccessOnlyIfVerified ==
    \A s \in Sessions :
        LET l == lock[s]
        IN  /\ l.state = "COMPLETE" <=> l.result.success
            /\ l.result.success =>
                  /\ LockReceiptGood(l)
                  /\ l.destination = Escrow
                  /\ l.escrowVerification.success
                  /\ l.result.transactionHash = l.lockTx
            /\ (l.result.returned /\ l.lockTx # NoTx
                  /\ ~(LockReceiptGood(l) /\ l.escrowVerification.success)) =>
                  /\ l.state = "FAILED"
                  /\ ~l.result.success

\* a lock reported established for a wallet whose stake is on the ledger
C13_Witness ==
    \E s \in Sessions :
        /\ lock[s].result.success
        /\ userStakes[lock[s].wallet] >= STAKE_AMOUNT
        /\ txs[lock[s].lockTx].from = lock[s].wallet

\* C14: the approval is sent only if the allowance read is below the stake
\* amount, and whenever it is below, the call goes on only with the approval
\* sent; the stake transaction is sent only when the allowance read was
\* sufficient or the approval of this call has been confirmed with success.
C14_ApproveBeforeStake ==
    \A s \in Sessions :
        LET l == lock[s]
        IN  /\ l.approveTx # NoTx =>
                  /\ l.allowanceRead # NoRead
                  /\ l.allowanceRead < STAKE_AMOUNT
                  /\ txs[l.approveTx].op = "approve"
            /\ (l.allowanceRead # NoRead /\ l.allowanceRead < STAKE_AMOUNT
                  /\ l.pc \in {"approving", "staking", "waiting"}) =>
                  l.approveTx # NoTx
            /\ l.pc = "staking" =>
                  \/ l.allowanceRead >= STAKE_AMOUNT
                  \/ txs[l.approveTx].state = "mined" /\ txs[l.approveTx].status = 1
            /\ l.lockTx # NoTx =>
                  /\ l.allowanceRead # NoRead
                  /\ \/ l.allowanceRead >= STAKE_AMOUNT /\ l.approveTx = NoTx
                     \/ /\ l.approveTx # NoTx
                        /\ txs[l.approveTx].state = "mined"
                        /\ txs[l.approveTx].status = 1
                        /\ txs[l.approveTx].nonce < txs[l.lockTx].nonce

\* a call that found no allowance, had its approval confirmed and sent its stake
C14_Witness ==
    \E s \in Sessions :
        /\ lock[s].allowanceRead = 0
        /\ lock[s].approveTx # NoTx
        /\ txs[lock[s].approveTx].state = "mined"
        /\ lock[s].lockTx # NoTx
        /\ txs[lock[s].lockTx].state = "pending"

----------------------------------------------------------------------------
(* Claims about the atomicity of the ledger operations, checked under Spec *)

\* the tokens of all holders together
TotalTokens(bal) == bal[Admin] + bal["c1"] + bal["c2"] + bal[Escrow]

\* C19: each ledger operation is all-or-nothing.  A call of stake, reward or
\* slash that reverts leaves userStakes, every balance, the allowances and the
\* event log as they were; a call that succeeds changes the record and moves the
\* tokens by the same amount, in the same step.
C19_AllOrNothing ==
    [][ IsCallStep =>
          LET c == lastCall'
              u == c.user
              recipient == IF c.op = "reward" THEN u ELSE Admin
          IN  /\ ~c.ok =>
                    /\ userStakes' = userStakes
                    /\ balances' = balances
                    /\ allowance' = allowance
                    /\ events' = events
              /\ (c.ok /\ c.op = "stake") =>
                    /\ userStakes'[c.sender] - userStakes[c.sender] = STAKE_AMOUNT
                    /\ balances[c.sender] - balances'[c.sender] = STAKE_AMOUNT
                    /\ balances'[Escrow] - balances[Escrow] = STAKE_AMOUNT
              /\ (c.ok /\ IsSettleCall(c)) =>
                    /\ userStakes[u] > 0
                    /\ userStakes'[u] = 0
                    /\ balances[Escrow] - balances'[Escrow] = userStakes[u]
                    /\ balances'[recipient] - balances[recipient] = userStakes[u]
              /\ TotalTokens(balances') = TotalTokens(balances) ]_vars

\* a stake() that reverted for want of allowance, by a caller who holds the
\* tokens and has an earlier stake recorded
C19_Witness ==
    /\ lastCall.op = "stake" /\ ~lastCall.ok
    /\ allowance[lastCall.sender] < STAKE_AMOUNT
    /\ balances[lastCall.sender] >= STAKE_AMOUNT
    /\ userStakes[lastCall.sender] > 0

\* C20: stake() reverts, moving no token and leaving userStakes unchanged, when
\* the caller's allowance to the escrow or the caller's balance is below the
\* stake amount; otherwise it moves exactly the stake amount from the caller to
\* the escrow and raises userStakes[caller] by it.
C20_StakeRevertsOrMoves ==
    [][ (IsCallStep /\ lastCall'.op = "stake") =>
          LET u == lastCall'.sender
          IN  IF allowance[u] < STAKE_AMOUNT \/ balances[u] < STAKE_AMOUNT
              THEN /\ ~lastCall'.ok
                   /\ balances' = balances
                   /\ userStakes' = userStakes
              ELSE /\ lastCall'.ok
                   /\ balances' = [balances EXCEPT ![u] = @ - STAKE_AMOUNT,
                                                   ![Escrow] = @ + STAKE_AMOUNT]
                   /\ userStakes' = [userStakes EXCEPT ![u] = @ + STAKE_AMOUNT] ]_vars

\* a stake() that reverted for want of tokens though the allowance was there
C20_Witness ==
    /\ lastCall.op = "stake" /\ ~lastCall.ok
    /\ allowance[lastCall.sender] >= STAKE_AMOUNT
    /\ balances[lastCall.sender] < STAKE_AMOUNT

----------------------------------------------------------------------------
(* Claims about the event log of the ledger, checked under Spec *)

\* the event of a successful stake / reward / slash
EventOf(op) ==
    CASE op = "stake" -> "Staked"
      [] op = "reward" -> "Rewarded"
      [] op = "slash" -> "Slashed"

\* the tokens a step moves into or out of the escrow
Moved == IF balances'[Escrow] >= balances[Escrow]
         THEN balances'[Escrow] - balances[Escrow]
         ELSE balances[Escrow] - balances'[Escrow]

\* C21: every successful stake, reward and slash appends exactly one event, of
\* its own kind, carrying the candidate and the amount the call moved; a call
\* that reverts appends none.  Hence every Rewarded / Slashed entry of a
\* candidate follows a Staked entry of that candidate that no earlier entry has
\* settled: one entry per settlement, none for a stake settled already.
C21_OneEventPerOperation ==
    /\ [][ IsCallStep =>
             LET c == lastCall'
             IN  IF c.ok
                 THEN /\ events' = Append(events, [name |-> EventOf(c.op), user |-> c.user,
                                                   amount |-> Moved])
                      /\ Moved = c.amount
                      /\ Moved > 0
                 ELSE events' = events ]_vars
    /\ [](\A i \in 1..Len(events) :
            IsSettleEvent(events[i], events[i].user) =>
               \E j \in 1..(i - 1) :
                  /\ events[j] = StakedEvent(events[i].user)
                  /\ \A k \in (j + 1)..(i - 1) : ~IsSettleEvent(events[k], events[i].user))

\* two stakes of one candidate settled by one slash: three events, the last
\* carrying both amounts
C21_Witness ==
    /\ Len(events) = 3
    /\ events[3].name = "Slashed"
    /\ events[3].amount = 2 * STAKE_AMOUNT
    /\ events[1] = StakedEvent(events[3].user)
    /\ events[2] = StakedEvent(events[3].user)

----------------------------------------------------------------------------
(* Claims about the errors of the lock flow, checked under SpecLock *)

\* the state of the last progress update of a call
LastProgress(l) == l.progress[Len(l.progress)]

\* C22: a call that ends on an error ends REJECTED exactly when the error
\* carries the code ACTION_REJECTED or 4001, and FAILED otherwise; a REJECTED
\* call reports success false and the state REJECTED, has no stake transaction,
\* has called approve and stake at most once each, and from then on neither
\* changes nor submits a transaction.
C22_RejectedIsTerminal ==
    /\ [](\A s \in Sessions :
          LET l == lock[s]
          IN  /\ (l.result.returned /\ ~l.result.success) =>
                    /\ l.state \in {"REJECTED", "FAILED"}
                    /\ l.state = "REJECTED" <=> l.errorCode \in {"ACTION_REJECTED", "4001"}
              /\ l.state = "REJECTED" =>
                    /\ l.pc \in {"done", "returned"}
                    /\ l.result.returned
                    /\ ~l.result.success
                    /\ l.result.state = "REJECTED"
                    /\ LastProgress(l) = "REJECTED"
                    /\ l.lockTx = NoTx
                    /\ txs[<<"lock", s>>].state = "none"
                    /\ \A i, j \in 1..Len(l.sends) : l.sends[i] = l.sends[j] => i = j)
    /\ [][\A s \in Sessions :
            lock[s].state = "REJECTED" =>
                /\ lock'[s].state = "REJECTED"
                /\ lock'[s].result = lock[s].result
                /\ lock'[s].sends = lock[s].sends
                /\ lock'[s].progress = lock[s].progress
                /\ lock'[s].approveTx = lock[s].approveTx
                /\ lock'[s].lockTx = NoTx
                /\ lock'[s].flow.returned => lock'[s].flow.result = lock[s].result
                /\ txs'[<<"lock", s>>] = txs[<<"lock", s>>]
                /\ txs[<<"approve", s>>].state = "none" =>
                      txs'[<<"approve", s>>].state = "none"]_vars

\* a call whose approval was confirmed and whose stake the wallet declined to sign
C22_Witness ==
    \E s \in Sessions :
        /\ lock[s].state = "REJECTED"
        /\ lock[s].errorCode = "4001"
        /\ lock[s].sends = <<"approve", "stake">>
        /\ txs[lock[s].approveTx].state = "mined"
        /\ txs[lock[s].approveTx].status = 1

----------------------------------------------------------------------------
(* Claims about retryWithBackoff, checked under SpecBackoff *)

\* the calls of fn among the first k entries of the log
CallsUpTo(k) == Cardinality({j \in 1..k : backoff.log[j].kind = "call"})

\* C23: retryWithBackoff calls fn at most maxRetries times; the wait that
\* follows the rate-limited attempt i (counted from 0) lasts
\* initialDelay * 2^i and every attempt but the first comes right after such a
\* wait; an error that is not a rate-limit error ends the call at once, thrown
\* as it is, with no wait and no further attempt; and a call whose attempts
\* were all rate-limited ends after maxRetries attempts by throwing the last
\* error.
C23_BoundedBackoff ==
    LET b == backoff
        n == Len(b.log)
        e == Len(b.errors)
    IN  /\ CallsUpTo(n) <= b.maxRetries
        /\ \A k \in 1..n :
              IF b.log[k].kind = "wait"
              THEN /\ k > 1
                   /\ b.log[k - 1].kind = "call"
                   /\ b.log[k].ms = b.initialDelay * 2^(CallsUpTo(k) - 1)
                   /\ isRateLimit(b.errors[CallsUpTo(k)])
              ELSE k > 1 => b.log[k - 1].kind = "wait"
        /\ \A k \in 1..e :
              ~isRateLimit(b.errors[k]) =>
                  /\ k = e
                  /\ b.pc = "thrown"
                  /\ b.thrown = b.errors[k]
                  /\ b.log[n].kind = "call"
                  /\ CallsUpTo(n) = e
        /\ (b.pc = "thrown" /\ \A k \in 1..e : isRateLimit(b.errors[k])) =>
              /\ e = b.maxRetries
              /\ CallsUpTo(n) = b.maxRetries
              /\ e > 0 => b.thrown = b.errors[e]
        /\ b.pc = "returned" =>
              /\ CallsUpTo(n) = e + 1
              /\ \A k \in 1..e : isRateLimit(b.errors[k])

\* a call with the defaults whose three attempts were all rate-limited
C23_Witness ==
    /\ backoff.pc = "thrown"
    /\ backoff.maxRetries = 3
    /\ backoff.initialDelay = 1000
    /\ backoff.log = <<FnCall, Wait(1000), FnCall, Wait(2000), FnCall, Wait(4000)>>
    /\ backoff.thrown.code = -32005

\* the calls of op (approve or stake) a lock call has made
SendsOf(l, op) == Cardinality({i \in 1..Len(l.sends) : l.sends[i] = op})

\* C27: a lock call that ended FAILED on a rate-limit error met while
\* submitting the approval or the stake had submitted it as many times as
\* retryWithBackoff allows (3 by default).
C27_SubmissionRetried ==
    \A s \in Sessions :
        LET l == lock[s]
        IN  (l.state = "FAILED" /\ l.errorCode = "-32005"
                /\ l.stage \in {"approve", "stake"}) =>
                SendsOf(l, l.stage) = 3

\* C28: a lock call that found the wallet on another chain, asked for the
\* switch and read the required chain afterwards goes on past the chain check
\* to the contracts, the balance and the allowance; one that read a wrong chain
\* after the switch, or whose switch was refused, ends FAILED having called
\* neither approve nor stake.
C28_SwitchThenContinue ==
    \A s \in Sessions :
        LET l == lock[s]
        IN  /\ (l.network = "switched" /\ l.result.returned) => l.stage # "network"
            /\ l.network \in {"stillWrong", "refused", "refusedCode"} =>
                  /\ l.state = "FAILED"
                  /\ l.sends = <<>>
                  /\ l.approveTx = NoTx
                  /\ l.lockTx = NoTx

\* C33: handlePaymentFlow notifies the server only after lockTokensInEscrow
\* returned success for a transaction it verified; after a lock that failed or
\* was rejected it notifies nobody and returns the lock's result unchanged;
\* and when the notification fails it still returns the successful lock
\* result.
C33_NotifyAfterVerifiedLock ==
    \A s \in Sessions :
        LET l == lock[s]
            notified == l.flow.progress # <<>>
        IN  /\ ~l.flow.returned => l.flow = NoFlow
            /\ notified =>
                  /\ l.result.success
                  /\ l.result.transactionHash = l.lockTx
                  /\ l.escrowVerification.success
                  /\ LockReceiptGood(l)
            /\ (l.flow.returned /\ ~l.result.success) =>
                  /\ ~notified
                  /\ l.flow.notifyResult = NoVerification
                  /\ l.flow.result = l.result
            /\ (notified /\ ~l.flow.notifyResult.success) =>
                  /\ l.flow.result.success
                  /\ l.flow.result = l.result

\* a verified lock whose notification failed, and the flow has returned
C33_Witness ==
    \E s \in Sessions :
        /\ lock[s].flow.returned
        /\ lock[s].flow.progress # <<>>
        /\ ~lock[s].flow.notifyResult.success
        /\ lock[s].flow.result.success

\* C24: whenever a step of the payment flow has failed (the lock call, the
\* fetch of the signer, or the notification of the server), handlePaymentFlow
\* returns a result with success false, the state FAILED or REJECTED and a
\* reason.
C24_FailuresSurface ==
    \A s \in Sessions :
        LET l == lock[s]
            stepFailed == \/ ~l.result.success
                          \/ l.flow.progress = <<>>
                          \/ ~l.flow.notifyResult.success
        IN  (l.flow.returned /\ stepFailed) =>
                /\ ~l.flow.result.success
                /\ l.flow.result.state \in {"FAILED", "REJECTED"}
                /\ l.flow.result.error # ""

----------------------------------------------------------------------------
(* Claims about re-entry into the ledger, checked under SpecReentry *)

\* C25: a call of reward or slash for the same user that re-enters the ledger
\* from the token transfer of reward / slash reads userStakes[user] as 0 and
\* reverts: with 'No stake found' when its caller is the admin, at the
\* onlyAdmin modifier otherwise; and the outer call pays out at most once.
C25_ZeroedBeforeTransfer ==
    LET in == lastCall.inner
    IN  in.op # "none" =>
            /\ in.stakeSeen = 0
            /\ ~in.ok
            /\ in.reason = IF in.sender = Admin THEN "No stake found"
                           ELSE "Only admin allowed"
            /\ lastCall.ok =>
                  /\ userStakes[lastCall.user] = 0
                  /\ events[Len(events)].user = lastCall.user
                  /\ events[Len(events)].amount = lastCall.amount

\* a slash of a staked candidate during which the admin re-entered with reward
C25_Witness ==
    /\ lastCall.ok
    /\ lastCall.op = "slash"
    /\ lastCall.amount = STAKE_AMOUNT
    /\ lastCall.inner.op = "reward"
    /\ lastCall.inner.sender = Admin
    /\ lastCall.inner.reason = "No stake found"

----------------------------------------------------------------------------
(* Claims about the custody of the tokens, checked under SpecToken *)

\* the stakes recorded for all accounts together
SumStakes(st) == st[Admin] + st["c1"] + st["c2"]

\* C26 as stated: the escrow's token balance equals the sum of the recorded
\* stakes in every reachable state.
C26_BalanceEqualsStakes == balances[Escrow] = SumStakes(userStakes)

\* C26: the escrow's token balance is never below the sum of the recorded
\* stakes; the two move together in every step but a plain token transfer to
\* the escrow's address, which raises the balance alone; and the balance falls
\* only in a successful reward, which pays the recorded amount to the named
\* candidate, or a successful slash, which pays it to the admin, no other
\* account's balance changing.
C26_CustodyConservation ==
    /\ [](balances[Escrow] >= SumStakes(userStakes))
    /\ [][LET dE == balances'[Escrow] - balances[Escrow]
              dS == SumStakes(userStakes') - SumStakes(userStakes)
              to == IF lastCall'.op = "reward" THEN lastCall'.user ELSE Admin
          IN  /\ dE # dS =>
                    /\ dE > 0
                    /\ userStakes' = userStakes
                    /\ events' = events
              /\ dE < 0 =>
                    /\ events' # events
                    /\ lastCall'.ok
                    /\ lastCall'.op \in {"reward", "slash"}
                    /\ lastCall'.amount = -dE
                    /\ balances'[to] = balances[to] - dE
                    /\ \A h \in Accounts \ {to} : balances'[h] = balances[h]]_vars

\* tokens were sent to the escrow's address directly, and a stake was rewarded
C26_Witness ==
    /\ balances[Escrow] > SumStakes(userStakes)
    /\ lastCall.ok
    /\ lastCall.op = "reward"
    /\ lastCall.user # Admin

----------------------------------------------------------------------------
(* Claims about failed settlement attempts, checked under SpecPipeline *)

\* C29: a settlement attempt that ended FAILED although its transaction was
\* mined with success had read userStakes[candidate] from the ledger before
\* it reported the failure.
C29_FailedOnlyAfterLedgerRead ==
    \A s \in Sessions :
        LET a == attempt[s]
        IN  (a.state = "FAILED" /\ a.transactionHash # NoTx
                /\ txs[a.transactionHash].state = "mined"
                /\ txs[a.transactionHash].status = 1) =>
                \E i \in 1..Len(a.checks) : a.checks[i] = "userStakes"

\* C30: a settlement transaction is sent only to an escrow address that is
\* well-formed and has deployed code, and an attempt made with any other
\* address ends FAILED having sent nothing.
C30_SentOnlyToValidatedAddress ==
    \A s \in Sessions :
        LET a == attempt[s]
        IN  /\ a.submitted # <<>> => a.escrowAddress = Escrow
            /\ (a.state # "IDLE" /\ a.escrowAddress # Escrow) =>
                  /\ a.state \in {"FAILED", "THROWN"}
                  /\ a.transactionHash = NoTx

\* the transactionHash argument of the i-th updateProgress call of an attempt:
\* the calls for VERIFYING and COMPLETE pass the hash, the others pass none
ProgressHash(a, i) ==
    IF a.progress[i] \in {"VERIFYING", "COMPLETE"} THEN a.transactionHash ELSE NoTx

\* C31: a settlement attempt that ended FAILED after it had sent its
\* transaction reports the hash of that transaction, in the returned result or
\* with the FAILED progress update.
C31_FailureCarriesHash ==
    \A s \in Sessions :
        LET a == attempt[s]
        IN  (a.state = "FAILED" /\ a.submitted # <<>>) =>
                \/ a.result.transactionHash = a.transactionHash
                \/ ProgressHash(a, Len(a.progress)) = a.transactionHash

----------------------------------------------------------------------------
(* Claims about the progress and the result of one settlement call, checked *)
(* under SpecPipeline                                                       *)

\* the progress states of a call that meets no error
FullProgress == <<"PREPARING", "EXECUTING", "VERIFYING", "COMPLETE">>

\* C32: the progress states published by one call of settlePass / settleFail
\* are a prefix of PREPARING, EXECUTING, VERIFYING, COMPLETE, or such a prefix
\* without COMPLETE followed by FAILED; COMPLETE is published exactly when the
\* returned result has success true; and once COMPLETE or FAILED is published
\* the call has returned and publishes nothing more.
C32_ProgressOrder ==
    /\ [](\A s \in Sessions :
            LET a == attempt[s]
                p == a.progress
                n == Len(p)
            IN  a.branch \in {"settlePass", "settleFail"} =>
                  /\ \/ n <= 4 /\ p = SubSeq(FullProgress, 1, n)
                     \/ /\ n \in 2..4
                        /\ p = SubSeq(FullProgress, 1, n - 1) \o <<"FAILED">>
                  /\ (\E i \in 1..n : p[i] = "COMPLETE") <=> a.result.success
                  /\ (\E i \in 1..n : p[i] \in {"COMPLETE", "FAILED"}) <=> a.result.returned
                  /\ n > 0 => a.state = p[n])
    /\ [][\A s \in Sessions :
            attempt[s].result.returned => attempt'[s].progress = attempt[s].progress]_vars

\* one call that went through all four states and one that failed after
\* VERIFYING
C32_Witness ==
    \E s, t \in Sessions :
        /\ attempt[s].progress = FullProgress
        /\ attempt[s].result.success
        /\ attempt[t].progress = <<"PREPARING", "EXECUTING", "VERIFYING", "FAILED">>
        /\ ~attempt[t].result.success

\* C34: the settlement transaction of an attempt is signed by the wallet
\* connected in the browser (the signer getContract() returns); it is mined
\* with success only when that wallet is the admin; with any other wallet the
\* attempt never ends COMPLETE, ends FAILED once its transaction is mined, and
\* the mining of its transaction leaves every stake record, balance and the
\* event log as they were.
C34_SettlesOnlyAsAdmin ==
    /\ [](\A s \in Sessions :
            LET a == attempt[s]
                tx == txs[SettleTx(s)]
            IN  /\ tx.state # "none" => tx.from = a.signer
                /\ (tx.state = "mined" /\ tx.status = 1) => a.signer = Admin
                /\ (a.signer # NoWallet /\ a.signer # Admin) =>
                      /\ a.state # "COMPLETE"
                      /\ ~a.result.success
                      /\ (a.result.returned /\ tx.state = "mined") => a.state = "FAILED"
                      /\ tx.state = "mined" => tx.reason = "Only admin allowed")
    /\ [][\A s \in Sessions :
            (txs[SettleTx(s)].state = "pending" /\ txs'[SettleTx(s)].state = "mined"
                /\ txs[SettleTx(s)].from # Admin) =>
                UNCHANGED <<userStakes, balances, events>>]_vars

\* the candidate's own wallet signed the settlement of its locked stake: the
\* transaction was refused, the attempt is FAILED and the stake is still locked
C34_Witness ==
    \E s \in Sessions :
        /\ attempt[s].signer = "c1"
        /\ attempt[s].input.walletAddress = "c1"
        /\ attempt[s].state = "FAILED"
        /\ txs[SettleTx(s)].state = "mined"
        /\ txs[SettleTx(s)].status = 0
        /\ userStakes["c1"] >= STAKE_AMOUNT

\* C35: the end-of-call flow of one interview sends at most one settlement
\* transaction: not both the reward of createFeedback and the reward or slash
\* of SettlementAgent.settle.
C35_OneSettlementPerInterview ==
    \A s \in Sessions :
        ~(txs[<<"feedback", s>>].state # "none" /\ txs[SettleTx(s)].state # "none")

----------------------------------------------------------------------------
(* Claims about accumulated stakes, checked under Spec *)

\* C36: every successful stake() adds the stake amount to the caller's record,
\* so that the record is the stake amount times the number of the caller's
\* stakes since its last settlement; a successful reward or slash pays out
\* exactly the amount recorded when it is called, to the candidate (reward) or
\* the admin (slash), takes it from the escrow, names it in its event and
\* resets the record to 0.
C36_StakesAccumulate ==
    /\ [](\A u \in Accounts : userStakes[u] = STAKE_AMOUNT * OpenStakes(u))
    /\ [][events' # events =>
            LET c == lastCall'
                recorded == userStakes[c.user]
                to == IF c.op = "reward" THEN c.user ELSE Admin
            IN  /\ c.ok
                /\ c.op = "stake" =>
                      /\ userStakes'[c.sender] = userStakes[c.sender] + STAKE_AMOUNT
                      /\ \A u \in Accounts \ {c.sender} : userStakes'[u] = userStakes[u]
                /\ c.op \in {"reward", "slash"} =>
                      /\ recorded = STAKE_AMOUNT * OpenStakes(c.user)
                      /\ c.amount = recorded
                      /\ events'[Len(events')].amount = recorded
                      /\ userStakes'[c.user] = 0
                      /\ balances'[Escrow] = balances[Escrow] - recorded
                      /\ balances'[to] = balances[to] + recorded
                      /\ \A u \in Accounts \ {c.user} : userStakes'[u] = userStakes[u]]_vars

\* a candidate staked twice and one reward paid both stakes back
C36_Witness ==
    /\ lastCall.ok
    /\ lastCall.op = "reward"
    /\ lastCall.user # Admin
    /\ lastCall.amount = 2 * STAKE_AMOUNT
    /\ userStakes[lastCall.user] = 0
    /\ balances[lastCall.user] = InitTokens

\* C37: every result returned by settlePass / settleFail names the verdict of
\* the input as interviewStatus and has tokensStatus refunded when that is pass
\* and penalized when it is fail, whether success is true or false; only with
\* success true is there a settlement transaction of that kind mined with
\* success behind it.
C37_TokensStatusFollowsVerdict ==
    \A s \in Sessions :
        LET a == attempt[s]
            r == a.result
            tx == txs[SettleTx(s)]
        IN  r.returned =>
              /\ r.interviewStatus \in {"pass", "fail"}
              /\ r.interviewStatus = a.input.status
              /\ r.tokensStatus = IF r.interviewStatus = "pass" THEN "refunded"
                                  ELSE "penalized"
              /\ r.success =>
                    /\ tx.state = "mined"
                    /\ tx.status = 1
                    /\ tx.op = IF r.tokensStatus = "refunded" THEN "reward" ELSE "slash"
                    /\ tx.user = a.input.walletAddress

\* a failed pass settlement reported with tokensStatus refunded while the
\* candidate's stake is still on the ledger
C37_Witness ==
    \E s \in Sessions :
        /\ attempt[s].result.returned
        /\ ~attempt[s].result.success
        /\ attempt[s].result.tokensStatus = "refunded"
        /\ attempt[s].input.walletAddress = "c1"
        /\ userStakes["c1"] >= STAKE_AMOUNT
        /\ txs[<<"feedback", s>>].state = "none"

====
